---- MODULE Spec2Model ----
(***************************************************************************)
(* Model of the crypto trading engine core:                                *)
(*   utils/rate_limiter.py  RateLimiter (sliding-window admission) and     *)
(*                          RetryHandler (bounded exponential backoff)     *)
(*   core/engine.py         TradingEngine._load_connectors and             *)
(*                          find_best_cross_exchange_bid_ask               *)
(*   connectors/            ExchangeConnector.__init__ and                 *)
(*                          BinanceConnector._request, get_best_bid_ask,   *)
(*                          calculate_price_impact                         *)
(*                                                                         *)
(* One group of variables per component.  Each specification drives one    *)
(* component and leaves the other groups at their initial value.           *)
(***************************************************************************)
EXTENDS Integers, Sequences, FiniteSets, TLC

----------------------------------------------------------------------------
(* Bounds of the model *)

\* number of concurrent caller coroutines of the rate limiter
NTasks == 2
\* last value of time.time() the model lets the clock reach (seconds)
MaxClock == 120
\* per-minute quota of the configured exchange "okx".  The table of
\* rate_limiter.py:15-23 holds 20..1800; the model keeps the table but with
\* a quota small enough to be exhausted.
QuotaOkx == 2
\* quota of an exchange missing from the table (rate_limiter.py:45 uses 60)
DefaultRateLimit == 1
\* per-minute quota of "binance" (1200 in the table), scaled so that the
\* attempts of one retried request exhaust it
QuotaBinance == 2

\* price levels of one side of an order book the model fetches (the code
\* asks the exchange for up to 1000)
MaxLevels == 3

\* number of pieces (currency codes and separator characters) a symbol
\* given to the SymbolMapper is made of
MaxParts == 3

(* Program constants *)

\* rate_limiter.py:50  "if current_time - ts < 60"
Window == 60
\* rate_limiter.py:77  "await asyncio.sleep(1)"
SleepSeconds == 1

----------------------------------------------------------------------------
(* RateLimiter: static data and pure helpers *)

Tasks == 1..NTasks
NoTask == 0

\* exchange names as callers pass them; acquire lower-cases them (line 42)
ExchangeArgs == {"OKX", "gate"}

lower(s) == IF s = "OKX" THEN "okx" ELSE s

ExchangeKeys == {lower(a) : a \in ExchangeArgs}

\* self.rate_limits (scaled, see QuotaOkx)
rate_limits ==
    [e \in {"okx", "binance"} |-> IF e = "okx" THEN QuotaOkx ELSE QuotaBinance]

\* self.rate_limits.get(exchange_lower, 60)
rate_limit(exchange_lower) ==
    IF exchange_lower \in DOMAIN rate_limits
    THEN rate_limits[exchange_lower]
    ELSE DefaultRateLimit

\* mutant: the age test written the wrong way round keeps every timestamp
CleanOldInverted(timestamps, now) ==
    SelectSeq(timestamps, LAMBDA ts : ts - now < Window)

\* the list comprehension of lines 48-51
CleanOld(timestamps, now) ==
    SelectSeq(timestamps, LAMBDA ts : now - ts < Window)

\* mutant: ">" for ">=" lets one request too many through
LimitReachedOffByOne(timestamps, limit) ==
    Len(timestamps) > limit

\* the comparison of line 54: TRUE when the request must be refused
LimitReached(timestamps, limit) ==
    Len(timestamps) >= limit

\* the clock jumps the model takes: half a window and a whole window
Advances == {30, 60}

VARIABLES
    clock,               \* time.time()
    request_timestamps,  \* self.request_timestamps: exchange -> list of times
    lock,                \* self.lock: the task holding it, or NoTask
    pc,                  \* position of every caller coroutine
    op,                  \* what the caller called: "acquire" or "wait"
    exch,                \* the exchange argument of the call
    current_time,        \* the local current_time of acquire (line 41)
    wake,                \* end of the asyncio.sleep(1) of wait_if_needed
    ret,                 \* return value of the caller's last acquire, as text
    recorded,            \* ghost: timestamps appended during the current call
    retried,             \* ghost: the current call has been refused before
    admitted,            \* ghost: admitted request times inside the window
    log                  \* ghost: acquire returns of the sequential caller

limiterVars == <<clock, request_timestamps, lock, pc, op, exch, current_time,
                 wake, ret, recorded, retried, admitted, log>>

VARIABLES
    max_retries,         \* RetryHandler.max_retries
    rh_pc,               \* position inside execute_with_retry
    attempt,             \* the loop variable of line 105
    last_exception,      \* the local last_exception
    rh_result,           \* value execute_with_retry returned
    rh_raised,           \* error execute_with_retry raised
    outcomes,            \* ghost: outcome of every invocation of func
    slept                \* ghost: the delays slept so far

retryVars == <<max_retries, rh_pc, attempt, last_exception, rh_result,
               rh_raised, outcomes, slept>>

VARIABLES
    connectors,          \* TradingEngine.connectors: loaded names in order
    eng_pc,              \* position inside find_best_cross_exchange_bid_ask
    results,             \* outcome of every get_best_bid_ask task
    result,              \* what find_best_cross_exchange_bid_ask returned
    completed            \* ghost: the exchanges in the order their task ended

engineVars == <<connectors, eng_pc, results, result, completed>>

VARIABLES
    conn_pc,             \* position inside BinanceConnector._make_request
    http_sent,           \* ghost: HTTP requests sent by the current operation
    conn_recorded,       \* ghost: timestamps recorded by the current operation
    statuses,            \* ghost: HTTP status of every response received
    response,            \* the JSON body of the last 200 response
    conn_out             \* what get_best_bid_ask returned or raised

connVars == <<conn_pc, http_sent, conn_recorded, statuses, response, conn_out>>

VARIABLES
    api_keys,            \* config.API_KEYS: exchange -> credentials
    load_idx,            \* entries of API_KEYS _load_connectors has handled
    instantiated,        \* ghost: exchanges whose connector class was called
    built                \* outcome of the last direct connector construction

loadVars == <<api_keys, load_idx, instantiated, built>>

VARIABLES
    pi_pc,               \* position inside calculate_price_impact
    order_book,          \* what get_l2_order_book returned
    best_bid_ask,        \* what get_best_bid_ask returned
    pi_side,             \* the side argument
    trade_volume_quote,  \* the trade_volume_quote argument
    pi_walk,             \* filled_value and filled_quantity after the loop
    pi_out               \* the estimate returned or the error raised

impactVars == <<pi_pc, order_book, best_bid_ask, pi_side, trade_volume_quote,
                pi_walk, pi_out>>

VARIABLES
    ord_pc,              \* position inside place_order / get_order_status
    ord_call,            \* the connector class, the method and its arguments
    ord_before,          \* ghost: request_timestamps when the call started
    ord_out              \* what the call returned or raised

orderVars == <<ord_pc, ord_call, ord_before, ord_out>>

VARIABLES
    pos_pc,              \* position inside get_position_details
    filled_order,        \* the filled_order argument
    current_price_info,  \* what get_best_bid_ask returned to this call
    earlier_price_info,  \* ghost: what it returned to the call before
    pos_out              \* the position returned or the error raised

positionVars == <<pos_pc, filled_order, current_price_info,
                  earlier_price_info, pos_out>>

VARIABLES
    map_pc,              \* which SymbolMapper calls have been made
    universal_pair,      \* the symbol given to to_exchange
    mapper_exchange,     \* the exchange_name given to both methods
    to_exchange_out,     \* what to_exchange returned or raised
    to_universal_out,    \* what to_universal returned or raised
    round_trip           \* to_universal was given the result of to_exchange

mapperVars == <<map_pc, universal_pair, mapper_exchange, to_exchange_out,
                to_universal_out, round_trip>>

\* the connector operations and the symbol mapper
contractVars == <<orderVars, positionVars, mapperVars>>

vars == <<limiterVars, retryVars, engineVars, connVars, loadVars, impactVars,
          contractVars>>

\* what an action of one component leaves alone
notLimiter == <<retryVars, engineVars, connVars, loadVars, impactVars,
                contractVars>>
notRetry == <<limiterVars, engineVars, connVars, loadVars, impactVars,
              contractVars>>
notEngine == <<limiterVars, retryVars, connVars, loadVars, impactVars,
               contractVars>>

LimiterInit ==
    /\ clock = 0
    /\ request_timestamps = [e \in ExchangeKeys |-> << >>]
    /\ lock = NoTask
    /\ pc = [t \in Tasks |-> "idle"]
    /\ op = [t \in Tasks |-> "none"]
    /\ exch = [t \in Tasks |-> "none"]
    /\ current_time = [t \in Tasks |-> 0]
    /\ wake = [t \in Tasks |-> 0]
    /\ ret = [t \in Tasks |-> "none"]
    /\ recorded = [t \in Tasks |-> 0]
    /\ retried = [t \in Tasks |-> FALSE]
    /\ admitted = [e \in ExchangeKeys |-> << >>]
    /\ log = [e \in ExchangeKeys |-> << >>]

\* time passes
Tick ==
    /\ \E d \in Advances :
          /\ clock + d <= MaxClock
          /\ clock' = clock + d
    /\ UNCHANGED <<request_timestamps, lock, pc, op, exch, current_time,
                   wake, ret, recorded, retried, admitted, log>>
    /\ UNCHANGED notLimiter

\* a caller invokes acquire(exchange) or wait_if_needed(exchange)
Call(t) ==
    /\ pc[t] \in {"idle", "done"}
    /\ \E o \in {"acquire", "wait"}, a \in ExchangeArgs :
          /\ op' = [op EXCEPT ![t] = o]
          /\ exch' = [exch EXCEPT ![t] = a]
    /\ pc' = [pc EXCEPT ![t] = "lock"]
    /\ ret' = [ret EXCEPT ![t] = "none"]
    /\ recorded' = [recorded EXCEPT ![t] = 0]
    /\ retried' = [retried EXCEPT ![t] = FALSE]
    /\ UNCHANGED <<clock, request_timestamps, lock, current_time, wake,
                   admitted, log>>
    /\ UNCHANGED notLimiter

\* mutant: the body of acquire entered without taking the lock
LockIgnored == TRUE

\* "async with self.lock" (line 40) lets a task in when nobody holds the lock
LockFree == lock = NoTask

\* mutant: one history shared by every exchange
HistoryShared(exchange_lower) == "okx"

\* lines 48-50, 54 and 63: self.request_timestamps[exchange_lower], the
\* history of an exchange is the one under its own lower-cased name
History(exchange_lower) == exchange_lower

\* lines 40-54: take the lock, read the clock, drop the timestamps older
\* than one minute and compare what is left with the limit
Enter(t) ==
    /\ pc[t] = "lock"
    /\ LockFree
    /\ lock' = t
    /\ current_time' = [current_time EXCEPT ![t] = clock]
    /\ LET e == lower(exch[t])
           kept == CleanOld(request_timestamps[History(e)], clock)
       IN  /\ request_timestamps' =
                 [request_timestamps EXCEPT ![History(e)] = kept]
           /\ pc' = [pc EXCEPT ![t] =
                        IF LimitReached(kept, rate_limit(e))
                        THEN "deny" ELSE "record"]
    /\ UNCHANGED <<clock, op, exch, wake, ret, recorded, retried, admitted,
                   log>>
    /\ UNCHANGED notLimiter

\* mutant: wait_if_needed returning after the first refusal
AfterAcquireGiveUp(t, r) ==
    /\ pc' = [pc EXCEPT ![t] = "done"]
    /\ wake' = wake

\* where the caller goes after acquire returned r (lines 75-77)
AfterAcquire(t, r) ==
    IF op[t] = "wait" /\ ~r
    THEN /\ pc' = [pc EXCEPT ![t] = "sleep"]
         /\ wake' = [wake EXCEPT ![t] = clock + SleepSeconds]
    ELSE /\ pc' = [pc EXCEPT ![t] = "done"]
         /\ wake' = wake

\* leaving the "async with" block
Release(t) == IF lock = t THEN NoTask ELSE lock

\* mutant: the refused request recorded all the same
RefusedRecorded(timestamps, now) == Append(timestamps, now)

\* lines 55-60: the refusal returns before the append of line 63
Refused(timestamps, now) == timestamps

\* lines 55-60: over the limit, return False and leave the lock
Deny(t) ==
    /\ pc[t] = "deny"
    /\ request_timestamps' =
          [request_timestamps EXCEPT
              ![History(lower(exch[t]))] = Refused(@, current_time[t])]
    /\ ret' = [ret EXCEPT ![t] = "False"]
    /\ AfterAcquire(t, FALSE)
    /\ lock' = Release(t)
    /\ current_time' = [current_time EXCEPT ![t] = 0]
    /\ retried' = [retried EXCEPT ![t] = op[t] = "wait"]
    /\ UNCHANGED <<clock, op, exch, recorded, admitted, log>>
    /\ UNCHANGED notLimiter

\* ghost: the admitted request times that lie in the window ending at now
InWindow(times, now) ==
    SelectSeq(times, LAMBDA ts : now - Window < ts)

\* lines 63-65: record the request, return True and leave the lock
Record(t) ==
    /\ pc[t] = "record"
    /\ LET e == lower(exch[t]) IN
          /\ request_timestamps' =
                [request_timestamps EXCEPT
                    ![History(e)] = Append(@, current_time[t])]
          /\ admitted' =
                [admitted EXCEPT
                    ![e] = Append(InWindow(admitted[e], current_time[t]),
                                  current_time[t])]
    /\ ret' = [ret EXCEPT ![t] = "True"]
    /\ recorded' = [recorded EXCEPT ![t] = recorded[t] + 1]
    /\ AfterAcquire(t, TRUE)
    /\ lock' = Release(t)
    /\ current_time' = [current_time EXCEPT ![t] = 0]
    /\ UNCHANGED <<clock, op, exch, retried, log>>
    /\ UNCHANGED notLimiter

\* line 77: the one-second sleep is over, wait_if_needed tries again
Wake(t) ==
    /\ pc[t] = "sleep"
    /\ clock >= wake[t]
    /\ pc' = [pc EXCEPT ![t] = "lock"]
    /\ wake' = [wake EXCEPT ![t] = 0]
    /\ UNCHANGED <<clock, request_timestamps, lock, op, exch, current_time,
                   ret, recorded, retried, admitted, log>>
    /\ UNCHANGED notLimiter

----------------------------------------------------------------------------
(* RetryHandler.execute_with_retry *)

\* rate_limiter.py:84  "max_retries: int = 3"
DefaultMaxRetries == 3
\* rate_limiter.py:84  "base_delay: float = 1.0"
BaseDelay == 1

\* what the retried function can raise and return
ErrorKinds == {"RateLimit", "Auth", "Forbidden", "Http", "OrderRejected"}
Values == {"success", "other"}

\* an exception object: its kind and the invocation that raised it
NoError == [kind |-> "None", n |-> 0]
NoValue == "None"

RetryIdle ==
    /\ max_retries = DefaultMaxRetries
    /\ rh_pc = "idle"
    /\ attempt = 0
    /\ last_exception = NoError
    /\ rh_result = NoValue
    /\ rh_raised = NoError
    /\ outcomes = << >>
    /\ slept = << >>

\* a handler built with any retry bound up to the default one
RetryInit ==
    /\ max_retries \in 0..DefaultMaxRetries
    /\ rh_pc = "idle"
    /\ attempt = 0
    /\ last_exception = NoError
    /\ rh_result = NoValue
    /\ rh_raised = NoError
    /\ outcomes = << >>
    /\ slept = << >>

RECURSIVE Pow2(_)
Pow2(n) == IF n = 0 THEN 1 ELSE 2 * Pow2(n - 1)

\* mutant: the delay growing by base_delay with every attempt
DelayLinear(a) == BaseDelay * (a + 1)

\* line 120
Delay(a) == BaseDelay * Pow2(a)

\* mutant: the loop bound taken for the number of attempts
LastAttemptOneShort(a) == a + 1 >= max_retries

\* line 111: the attempt after which nothing is retried
LastAttempt(a) == a = max_retries

\* mutant: the failure wrapped into an error of the handler's own
RaisedWrapped(e) == [kind |-> "RetriesExhausted", n |-> e.n]

\* line 117: the bare "raise" inside the except block re-raises e itself
Raised(e) == e

\* mutant: the result kept in a local and the loop left to run on
AfterSuccessKeepGoing == "sleep"

\* line 107: "return await func(...)" leaves the function on success
AfterSuccess == "returned"

\* mutant: an authentication failure let through without retry
CaughtUnlessAuth(k) == k # "Auth"

\* line 108: "except Exception as e" catches whatever func raised
Caught(k) == TRUE

\* lines 103-105: the call starts with the first attempt
Execute ==
    /\ rh_pc = "idle"
    /\ rh_pc' = "call"
    /\ attempt' = 0
    /\ last_exception' = NoError
    /\ UNCHANGED <<max_retries, rh_result, rh_raised, outcomes, slept>>
    /\ UNCHANGED notRetry

\* lines 106-107 as they change the handler's own state: func returns v
OnReturn(v) ==
    /\ rh_pc = "call"
    /\ outcomes' = Append(outcomes, [ok |-> TRUE, val |-> v, err |-> NoError])
    /\ rh_result' = v
    /\ rh_pc' = AfterSuccess
    /\ UNCHANGED <<max_retries, attempt, last_exception, rh_raised, slept>>

\* lines 108-125 as they change the handler's own state: func raises an
\* exception of kind k
OnRaise(k) ==
    /\ rh_pc = "call"
    /\ LET e == [kind |-> k, n |-> Len(outcomes) + 1] IN
          /\ outcomes' = Append(outcomes, [ok |-> FALSE, val |-> NoValue, err |-> e])
          /\ last_exception' = e
          /\ IF LastAttempt(attempt) \/ ~Caught(k)
             THEN /\ rh_raised' = Raised(e)
                  /\ rh_pc' = "raised"
                  /\ slept' = slept
             ELSE /\ rh_raised' = rh_raised
                  /\ rh_pc' = "sleep"
                  /\ slept' = Append(slept, Delay(attempt))
    /\ UNCHANGED <<max_retries, attempt, rh_result>>

\* line 125 and back to line 105 as they change the handler's own state
NextAttempt ==
    /\ rh_pc = "sleep"
    /\ rh_pc' = "call"
    /\ attempt' = attempt + 1
    /\ UNCHANGED <<max_retries, last_exception, rh_result, rh_raised,
                   outcomes, slept>>

\* lines 106-107: func returns v
FuncReturns(v) ==
    /\ OnReturn(v)
    /\ UNCHANGED notRetry

\* lines 108-125: func raises an exception of kind k
FuncRaises(k) ==
    /\ OnRaise(k)
    /\ UNCHANGED notRetry

\* line 125 and back to line 105: the sleep ends, the next attempt starts
Retry ==
    /\ NextAttempt
    /\ UNCHANGED notRetry

----------------------------------------------------------------------------
(* TradingEngine.find_best_cross_exchange_bid_ask *)

\* the exchanges of API_KEYS that have a connector class, in dictionary order
AllExchanges == <<"binance", "kucoin", "bitmart">>

\* prices a connector can quote
Prices == {99, 100, 101, 102, 103}

\* the subsequences of a sequence: the connector sets _load_connectors can
\* build, insertion order kept
RECURSIVE SubSeqs(_)
SubSeqs(q) ==
    IF q = << >> THEN {<< >>}
    ELSE LET rest == SubSeqs(Tail(q))
         IN  rest \cup {<<Head(q)>> \o r : r \in rest}

\* the state of one get_best_bid_ask task and what it produced
Pending == [st |-> "pending", bid |-> 0, ask |-> 0, err |-> "None"]
Quote(b, a) == [st |-> "ok", bid |-> b, ask |-> a, err |-> "None"]
Failure(k) == [st |-> "exc", bid |-> 0, ask |-> 0, err |-> k]

\* mutant: a raised exception taken for a quote
IsExceptionNever(r) == FALSE

\* line 87: isinstance(result, Exception)
IsException(r) == r.st = "exc"

\* None for best_bid / best_ask
None == [exchange |-> "None", price |-> 0]

NoResult == [best_bid |-> None, best_ask |-> None, errors |-> << >>,
             error |-> "None", raised |-> "None"]

EngineIdle ==
    /\ connectors = AllExchanges
    /\ eng_pc = "idle"
    /\ results = [e \in {} |-> Pending]
    /\ result = NoResult
    /\ completed = << >>

\* an engine built from any configuration of credentials
EngineInit ==
    /\ connectors \in SubSeqs(AllExchanges)
    /\ eng_pc = "idle"
    /\ results = [e \in {} |-> Pending]
    /\ result = NoResult
    /\ completed = << >>

Loaded == {connectors[i] : i \in 1..Len(connectors)}

\* mutant: the lowest bid taken for the best one
BetterBidLowest(best_bid, bid) == best_bid = None \/ bid < best_bid.price

\* line 94
BetterBid(best_bid, bid) == best_bid = None \/ bid > best_bid.price

\* mutant: "<=" for "<" lets a later exchange take a tie
BetterAskOrEqual(best_ask, ask) == best_ask = None \/ ask <= best_ask.price

\* line 98
BetterAsk(best_ask, ask) == best_ask = None \/ ask < best_ask.price

\* mutant: the error list overwritten instead of extended
AddErrorOverwrite(errors, exchange_name, r) ==
    <<[exchange |-> exchange_name, err |-> r.err]>>

\* mutant: the failure logged but not kept
AddErrorDropped(errors, exchange_name, r) == errors

\* lines 88-90: one message per failed exchange
AddError(errors, exchange_name, r) ==
    Append(errors, [exchange |-> exchange_name, err |-> r.err])

\* mutant: gather called without return_exceptions
ReturnExceptionsOff == FALSE

\* line 79: asyncio.gather(*tasks, return_exceptions=True)
ReturnExceptions == TRUE

\* mutant: the results taken in the order the tasks ended
GatherOrderAsCompleted == completed

\* lines 78-85: gather returns the results in the order of the tasks, which
\* is the order of self.connectors, and zip pairs them with the names
GatherOrder == connectors

\* lines 85-99: the loop over the gathered results, from index i on
RECURSIVE Reduce(_, _, _, _)
Reduce(i, best_bid, best_ask, errors) ==
    IF i > Len(GatherOrder)
    THEN [best_bid |-> best_bid, best_ask |-> best_ask, errors |-> errors,
          error |-> "None", raised |-> "None"]
    ELSE LET exchange_name == GatherOrder[i]
             r == results[exchange_name]
         IN  IF IsException(r)
             THEN Reduce(i + 1, best_bid, best_ask,
                         AddError(errors, exchange_name, r))
             ELSE Reduce(i + 1,
                         IF BetterBid(best_bid, r.bid)
                         THEN [exchange |-> exchange_name, price |-> r.bid]
                         ELSE best_bid,
                         IF BetterAsk(best_ask, r.ask)
                         THEN [exchange |-> exchange_name, price |-> r.ask]
                         ELSE best_ask,
                         errors)

\* mutant: the empty connector set not told apart
NoConnectorsUnchecked == FALSE

\* line 73: "if not self.connectors"
NoConnectors == connectors = << >>

\* lines 73-79: return at once without connectors, else start one
\* get_best_bid_ask task per connector
FindBest ==
    /\ eng_pc = "idle"
    /\ IF NoConnectors
       THEN /\ result' = [NoResult EXCEPT !.error = "No connectors available"]
            /\ eng_pc' = "done"
            /\ results' = results
       ELSE /\ results' = [e \in Loaded |-> Pending]
            /\ eng_pc' = "gather"
            /\ result' = result
    /\ completed' = << >>
    /\ UNCHANGED connectors
    /\ UNCHANGED notEngine

\* a connector's get_best_bid_ask returns a quote
ConnectorReturns(e) ==
    /\ eng_pc = "gather"
    /\ e \in Loaded
    /\ results[e] = Pending
    /\ \E b \in Prices, a \in Prices :
          results' = [results EXCEPT ![e] = Quote(b, a)]
    /\ completed' = Append(completed, e)
    /\ UNCHANGED <<connectors, eng_pc, result>>
    /\ UNCHANGED notEngine

\* a connector's get_best_bid_ask raises
ConnectorRaises(e) ==
    /\ eng_pc = "gather"
    /\ e \in Loaded
    /\ results[e] = Pending
    /\ \E k \in ErrorKinds :
          results' = [results EXCEPT ![e] = Failure(k)]
    /\ completed' = Append(completed, e)
    /\ UNCHANGED <<connectors, eng_pc, result>>
    /\ UNCHANGED notEngine

Failed == {e \in DOMAIN results : results[e].st = "exc"}
Succeeded == {e \in DOMAIN results : results[e].st = "ok"}

\* mutant: the results taken as soon as one task has finished
GatherReadyFirst == \E e \in Loaded : results[e] # Pending

\* line 79: "await asyncio.gather(...)" resumes when every task has
\* finished
GatherReady == \A e \in Loaded : results[e] # Pending

\* lines 79-109: gather hands the results over once every task has finished
\* (or, without return_exceptions, raises the first exception), the loop
\* reduces them and the result is returned
Gathered ==
    /\ eng_pc = "gather"
    /\ IF ReturnExceptions
       THEN /\ GatherReady
            /\ result' = Reduce(1, None, None, << >>)
            /\ eng_pc' = "done"
       ELSE \/ /\ \A e \in Loaded : results[e].st = "ok"
               /\ result' = Reduce(1, None, None, << >>)
               /\ eng_pc' = "done"
            \/ /\ \E e \in Failed :
                    result' = [NoResult EXCEPT !.raised = results[e].err]
               /\ eng_pc' = "raised"
    /\ UNCHANGED <<connectors, results, completed>>
    /\ UNCHANGED notEngine

----------------------------------------------------------------------------
(* BinanceConnector._request and get_best_bid_ask *)

\* base_connector.py:27: the class name without "Connector", lower-cased
ConnName == "binance"

\* HTTP statuses the exchange may answer with
Statuses == {200, 204, 401, 403, 429, 500}

\* bid and ask prices of a bookTicker answer
TickerPrices == {99, 100}

NoResponse == [bid |-> 0, ask |-> 0]

\* line 35 reads the name "params" inside _make_request.  The assignment of
\* line 36 makes the name local to _make_request, so the read finds the
\* local unbound, whatever the caller passed to _request
ParamsBound == FALSE

\* lines 49-61: the exception raised for a response whose status is not 200
Classify(status) ==
    IF status = 429 THEN "RateLimited"
    ELSE IF status = 401 THEN "AuthFailed"
    ELSE IF status = 403 THEN "Forbidden"
    ELSE "UpstreamError"

ConnIdle ==
    /\ conn_pc = "idle"
    /\ http_sent = 0
    /\ conn_recorded = 0
    /\ statuses = << >>
    /\ response = NoResponse
    /\ conn_out = Pending

\* _request line 67 down to execute_with_retry lines 103-105: the first
\* attempt of a request starts
StartRequest ==
    /\ conn_pc' = "admit"
    /\ http_sent' = 0
    /\ conn_recorded' = 0
    /\ statuses' = << >>
    /\ response' = NoResponse
    /\ conn_out' = Pending
    /\ rh_pc' = "call"
    /\ attempt' = 0
    /\ last_exception' = NoError
    /\ rh_result' = NoValue
    /\ rh_raised' = NoError
    /\ outcomes' = << >>
    /\ slept' = << >>
    /\ UNCHANGED max_retries

\* get_best_bid_ask lines 70-73 down to execute_with_retry lines 103-105:
\* the first attempt starts
GetBestBidAsk ==
    /\ conn_pc \in {"idle", "done"}
    /\ StartRequest
    /\ UNCHANGED <<limiterVars, engineVars, loadVars, impactVars>>
    /\ UNCHANGED contractVars

\* line 33, one pass of the loop of wait_if_needed: acquire(self.name) from
\* its first to its last line
ConnAcquire ==
    /\ conn_pc = "admit"
    /\ LET kept == CleanOld(request_timestamps[ConnName], clock)
           refused == LimitReached(kept, rate_limit(ConnName))
       IN  /\ request_timestamps' =
                 [request_timestamps EXCEPT
                     ![ConnName] = IF refused THEN kept ELSE Append(kept, clock)]
           /\ conn_recorded' = IF refused THEN conn_recorded ELSE conn_recorded + 1
           /\ conn_pc' = IF refused THEN "wait" ELSE "request"
    /\ UNCHANGED <<clock, lock, pc, op, exch, current_time, wake, ret,
                   recorded, retried, admitted, log>>
    /\ UNCHANGED <<http_sent, statuses, response, conn_out>>
    /\ UNCHANGED <<retryVars, engineVars, loadVars, impactVars>>
    /\ UNCHANGED contractVars

\* rate_limiter.py line 77 inside line 33: the refused attempt sleeps one
\* second and asks again
ConnWake ==
    /\ conn_pc = "wait"
    /\ clock + SleepSeconds <= MaxClock
    /\ clock' = clock + SleepSeconds
    /\ conn_pc' = "admit"
    /\ UNCHANGED <<request_timestamps, lock, pc, op, exch, current_time,
                   wake, ret, recorded, retried, admitted, log>>
    /\ UNCHANGED <<http_sent, conn_recorded, statuses, response, conn_out>>
    /\ UNCHANGED <<retryVars, engineVars, loadVars, impactVars>>
    /\ UNCHANGED contractVars

\* lines 35-64 as one attempt of execute_with_retry: the read of params,
\* then the HTTP exchange and the classification of its status
ConnRequest ==
    /\ conn_pc = "request"
    /\ IF ParamsBound
       THEN \E st \in Statuses :
              /\ http_sent' = http_sent + 1
              /\ statuses' = Append(statuses, st)
              /\ IF st = 200
                 THEN /\ \E b \in TickerPrices, a \in TickerPrices :
                            response' = [bid |-> b, ask |-> a]
                      /\ OnReturn("data")
                 ELSE /\ response' = response
                      /\ OnRaise(Classify(st))
       ELSE /\ OnRaise("UnboundLocalError")
            /\ UNCHANGED <<http_sent, statuses, response>>
    /\ conn_pc' = "retry"
    /\ UNCHANGED <<conn_recorded, conn_out>>
    /\ UNCHANGED <<limiterVars, engineVars, loadVars, impactVars>>
    /\ UNCHANGED contractVars

\* mutant: a retried attempt goes to the HTTP exchange without asking the
\* rate limiter again
AfterBackoffSkipAdmission == "request"

\* rate_limiter.py line 111 calls _make_request again, whose first
\* statement is the wait_if_needed of line 33
AfterBackoff == "admit"

\* rate_limiter.py line 125: the backoff sleep ends, the next attempt starts
ConnBackoffOver ==
    /\ conn_pc = "retry"
    /\ NextAttempt
    /\ clock + Delay(attempt) <= MaxClock
    /\ clock' = clock + Delay(attempt)
    /\ conn_pc' = AfterBackoff
    /\ UNCHANGED <<request_timestamps, lock, pc, op, exch, current_time,
                   wake, ret, recorded, retried, admitted, log>>
    /\ UNCHANGED <<http_sent, conn_recorded, statuses, response, conn_out>>
    /\ UNCHANGED <<engineVars, loadVars, impactVars>>
    /\ UNCHANGED contractVars

\* lines 74-79: execute_with_retry is over; get_best_bid_ask returns the
\* quote built from the answer or raises again what _request raised
ConnFinish ==
    /\ conn_pc = "retry"
    /\ rh_pc \in {"returned", "raised"}
    /\ conn_out' = IF rh_pc = "returned"
                   THEN Quote(response.bid, response.ask)
                   ELSE Failure(rh_raised.kind)
    /\ conn_pc' = "done"
    /\ UNCHANGED <<http_sent, conn_recorded, statuses, response>>
    /\ UNCHANGED <<limiterVars, retryVars, engineVars, loadVars, impactVars>>
    /\ UNCHANGED contractVars

----------------------------------------------------------------------------
(* TradingEngine._load_connectors and ExchangeConnector.__init__ *)

\* the entries of config.API_KEYS, in the order of the dict, whose connector
\* class is part of the sources (bybit and okx are not)
ConfigNames == AllExchanges

\* a credential read from the environment: empty (the default) or set
CredValues == {"", "set"}

\* config.py lines 9-31: the third credential of an entry, when it has one
ExtraField(name) ==
    IF name = "kucoin" THEN "passphrase"
    ELSE IF name = "bitmart" THEN "memo"
    ELSE "none"

\* the credential dicts an entry of API_KEYS can hold; extra is the value
\* of the passphrase or memo, "n/a" for an entry without one
Credentials(name) ==
    [api_key : CredValues, api_secret : CredValues,
     extra : IF ExtraField(name) = "none" THEN {"n/a"} ELSE CredValues]

\* every content of API_KEYS the environment variables can produce
Environments ==
    {f \in [{"binance", "kucoin", "bitmart"} ->
                UNION {Credentials(name) : name \in {"binance", "kucoin", "bitmart"}}] :
        \A name \in {"binance", "kucoin", "bitmart"} : f[name] \in Credentials(name)}

NotBuilt == [name |-> "None", api_key |-> "", api_secret |-> "", extra |-> "",
             outcome |-> "none"]

LoadIdle ==
    /\ api_keys = [name \in {"binance", "kucoin", "bitmart"} |->
                      [api_key |-> "", api_secret |-> "",
                       extra |-> IF ExtraField(name) = "none" THEN "n/a" ELSE ""]]
    /\ load_idx = 0
    /\ instantiated = {}
    /\ built = NotBuilt

\* engine.py line 41: creds.get("api_key") and creds.get("api_secret")
KeysConfigured(creds) ==
    creds.api_key # "" /\ creds.api_secret # ""

\* engine.py lines 30-36: connector_classes.get(name) finds a class
HasConnectorClass(name) ==
    name \in {"binance", "kucoin", "bitmart"}

\* mutant: the constructor refuses only when both credentials are empty
ConstructNeedsEither(creds) ==
    IF creds.api_key = "" /\ creds.api_secret = ""
    THEN "ValueError"
    ELSE "ok"

\* base_connector.py lines 22-24, reached from every connector class:
\* "ok" when the instance is built, else the exception raised
Construct(creds) ==
    IF creds.api_key = "" \/ creds.api_secret = ""
    THEN "ValueError"
    ELSE "ok"

\* engine.py lines 39-54: one pass of the loop over API_KEYS.items()
LoadConnector ==
    /\ eng_pc = "idle"
    /\ load_idx < Len(ConfigNames)
    /\ LET name == ConfigNames[load_idx + 1]
           creds == api_keys[name]
           called == KeysConfigured(creds) /\ HasConnectorClass(name)
       IN  /\ instantiated' = IF called THEN instantiated \cup {name}
                                        ELSE instantiated
           /\ connectors' = IF called /\ Construct(creds) = "ok"
                            THEN Append(connectors, name)
                            ELSE connectors
    /\ load_idx' = load_idx + 1
    /\ UNCHANGED <<api_keys, built>>
    /\ UNCHANGED <<eng_pc, results, result, completed>>
    /\ UNCHANGED <<limiterVars, retryVars, connVars, impactVars>>
    /\ UNCHANGED contractVars

\* a caller other than the engine constructs a connector itself
ConstructDirect ==
    /\ \E name \in {"binance", "kucoin", "bitmart"} :
          \E creds \in Credentials(name) :
              built' = [name |-> name, api_key |-> creds.api_key,
                        api_secret |-> creds.api_secret, extra |-> creds.extra,
                        outcome |-> Construct(creds)]
    /\ UNCHANGED <<api_keys, load_idx, instantiated>>
    /\ UNCHANGED <<limiterVars, retryVars, engineVars, connVars, impactVars>>
    /\ UNCHANGED contractVars

\* line 21: _load_connectors has returned
LoadDone == load_idx = Len(ConfigNames)

----------------------------------------------------------------------------
(* BinanceConnector.calculate_price_impact *)

\* Python's float division and arithmetic, kept exact: a number is the
\* fraction n/d in lowest terms with d > 0
RECURSIVE GCD(_, _)
GCD(a, b) == IF b = 0 THEN a ELSE GCD(b, a % b)

Abs(n) == IF n < 0 THEN -n ELSE n

Frac(n, d) ==
    LET g == GCD(Abs(n), d) IN [n |-> n \div g, d |-> d \div g]

Whole(n) == [n |-> n, d |-> 1]

FAdd(x, y) == Frac(x.n * y.d + y.n * x.d, x.d * y.d)
FSub(x, y) == Frac(x.n * y.d - y.n * x.d, x.d * y.d)
FMul(x, y) == Frac(x.n * y.n, x.d * y.d)
\* x / y for y # 0
FDiv(x, y) ==
    IF y.n > 0 THEN Frac(x.n * y.d, x.d * y.n) ELSE Frac(-(x.n * y.d), -(x.d * y.n))

\* prices and quantities of the levels an exchange answers with
AskPrices == {100, 101, 102, 999}
BidPrices == {97, 98}
Quantities == {1, 2, 5}

\* a level is the list [price, quantity] of lines 89-90
Levels(prices) == {<<p, q>> : p \in prices, q \in Quantities}

\* the asks of a depth answer: best (lowest) price first
AskSides ==
    {s \in UNION {[1..n -> Levels(AskPrices)] : n \in 0..MaxLevels} :
        \A i \in 1..(Len(s) - 1) : s[i][1] < s[i + 1][1]}

\* the bids of a depth answer: best (highest) price first
BidSides ==
    {s \in UNION {[1..n -> Levels(BidPrices)] : n \in 0..MaxLevels} :
        \A i \in 1..(Len(s) - 1) : s[i][1] > s[i + 1][1]}

\* the bookTicker answers get_best_bid_ask may return
QuoteChoices == {[bid |-> 99, ask |-> 100], [bid |-> 98, ask |-> 100]}

\* the side and trade_volume_quote arguments callers pass
Sides == {"buy", "BUY", "sell"}
Volumes == {0, 100, 150, 1000, 1001}

\* line 125: side.lower()
SideLower(side) == IF side = "BUY" THEN "buy" ELSE side

\* mutant: a buy taken from the bids and a sell from the asks
BookSideSameDirection(book, side) ==
    IF SideLower(side) = "buy" THEN book.bids ELSE book.asks

\* line 125: the side of the book the trade consumes
BookSide(book, side) ==
    IF SideLower(side) = "buy" THEN book.asks ELSE book.bids

\* line 123
MidPrice(quote) == Frac(quote.bid + quote.ask, 2)

\* mutant: the last level touched counts with its whole quantity
PartialQuantityWholeLevel(volume_to_fill, price, quantity) ==
    Whole(quantity)

\* line 134: the quantity bought at the level that completes the trade
PartialQuantity(volume_to_fill, price, quantity) ==
    Frac(volume_to_fill, price)

\* mutant: the level that completes the trade counted with its whole value
PartialValueWholeLevel(volume_to_fill, level_value) == level_value

\* line 135: the value taken from the level that completes the trade
PartialValue(volume_to_fill, level_value) == volume_to_fill

\* lines 131-140: the loop over book_side from level i on
RECURSIVE Walk(_, _, _, _, _)
Walk(book_side, i, volume_to_fill, filled_value, filled_quantity) ==
    IF i > Len(book_side)
    THEN [filled_value |-> filled_value, filled_quantity |-> filled_quantity]
    ELSE LET price == book_side[i][1]
             quantity == book_side[i][2]
             level_value == price * quantity
         IN  IF volume_to_fill <= level_value
             THEN [filled_value |->
                       filled_value + PartialValue(volume_to_fill, level_value),
                   filled_quantity |->
                       FAdd(filled_quantity,
                            PartialQuantity(volume_to_fill, price, quantity))]
             ELSE Walk(book_side, i + 1, volume_to_fill - level_value,
                       filled_value + level_value,
                       FAdd(filled_quantity, Whole(quantity)))

\* mutant: the comparison the wrong way round
ShortOfVolumeInverted(filled_value, volume) ==
    filled_value * 1000 > volume * 999

\* mutant: no tolerance, any shortfall refused
ShortOfVolumeNoTolerance(filled_value, volume) ==
    filled_value < volume

\* line 142: filled_value < trade_volume_quote * 0.999
ShortOfVolume(filled_value, volume) ==
    filled_value * 1000 < volume * 999

NoBook == [asks |-> << >>, bids |-> << >>]
NoQuote == [bid |-> 0, ask |-> 0]
NoWalk == [filled_value |-> 0, filled_quantity |-> Whole(0)]

NoEstimate == [st |-> "pending", average_execution_price |-> Whole(0),
               price_impact_percent |-> Whole(0), err |-> "None"]

\* lines 148-153: the dict returned
Estimate(avg_exec_price, price_impact) ==
    [st |-> "ok", average_execution_price |-> avg_exec_price,
     price_impact_percent |-> price_impact, err |-> "None"]

\* lines 154-156: the exception raised again
ImpactFailure(k) == [NoEstimate EXCEPT !.st = "exc", !.err = k]

\* lines 127-153 for a fetched book and quote
Impact(book, quote, side, volume) ==
    LET w == Walk(BookSide(book, side), 1, volume, 0, Whole(0))
        mid_price == MidPrice(quote)
    IN  IF ShortOfVolume(w.filled_value, volume)
        THEN ImpactFailure("ValueError")
        ELSE IF w.filled_quantity.n = 0 \/ mid_price.n = 0
        THEN ImpactFailure("ZeroDivisionError")
        ELSE LET avg_exec_price == FDiv(Whole(w.filled_value), w.filled_quantity)
             IN  Estimate(avg_exec_price,
                          FMul(FDiv(FSub(avg_exec_price, mid_price), mid_price),
                               Whole(100)))

ImpactIdle ==
    /\ pi_pc = "idle"
    /\ order_book = NoBook
    /\ best_bid_ask = NoQuote
    /\ pi_side = "buy"
    /\ trade_volume_quote = 0
    /\ pi_walk = NoWalk
    /\ pi_out = NoEstimate

\* line 121: get_l2_order_book answers with a book
FetchBook ==
    /\ pi_pc = "book"
    /\ \E a \in AskSides, b \in BidSides :
          order_book' = [asks |-> a, bids |-> b]
    /\ pi_pc' = "quote"
    /\ UNCHANGED <<best_bid_ask, pi_side, trade_volume_quote, pi_walk, pi_out>>
    /\ UNCHANGED <<limiterVars, retryVars, engineVars, connVars, loadVars>>
    /\ UNCHANGED contractVars

\* line 122: get_best_bid_ask answers with a quote
FetchQuote ==
    /\ pi_pc = "quote"
    /\ \E q \in QuoteChoices : best_bid_ask' = q
    /\ pi_pc' = "walk"
    /\ UNCHANGED <<order_book, pi_side, trade_volume_quote, pi_walk, pi_out>>
    /\ UNCHANGED <<limiterVars, retryVars, engineVars, connVars, loadVars>>
    /\ UNCHANGED contractVars

\* lines 121-122 and 154-156: one of the two fetches raises, and
\* calculate_price_impact raises the same exception
FetchRaises ==
    /\ pi_pc \in {"book", "quote"}
    /\ pi_out' = ImpactFailure("FetchError")
    /\ pi_pc' = "done"
    /\ UNCHANGED <<order_book, best_bid_ask, pi_side, trade_volume_quote, pi_walk>>
    /\ UNCHANGED <<limiterVars, retryVars, engineVars, connVars, loadVars>>
    /\ UNCHANGED contractVars

\* lines 123-156: the walk over the fetched book and its result
WalkBook ==
    /\ pi_pc = "walk"
    /\ pi_walk' = Walk(BookSide(order_book, pi_side), 1, trade_volume_quote,
                       0, Whole(0))
    /\ pi_out' = Impact(order_book, best_bid_ask, pi_side, trade_volume_quote)
    /\ pi_pc' = "done"
    /\ UNCHANGED <<order_book, best_bid_ask, pi_side, trade_volume_quote>>
    /\ UNCHANGED <<limiterVars, retryVars, engineVars, connVars, loadVars>>
    /\ UNCHANGED contractVars

----------------------------------------------------------------------------
(* SymbolMapper *)

\* a str is a sequence of one-character strings

\* str.upper() and str.lower() on the characters the model uses
UpperChar(c) ==
    IF c = "b" THEN "B" ELSE IF c = "t" THEN "T" ELSE IF c = "c" THEN "C" ELSE c

LowerChar(c) ==
    IF c = "B" THEN "b" ELSE IF c = "T" THEN "t" ELSE IF c = "C" THEN "c"
    ELSE IF c = "U" THEN "u" ELSE IF c = "S" THEN "s" ELSE IF c = "D" THEN "d"
    ELSE IF c = "E" THEN "e" ELSE IF c = "H" THEN "h" ELSE c

UpperStr(str) == [i \in 1..Len(str) |-> UpperChar(str[i])]
LowerStr(str) == [i \in 1..Len(str) |-> LowerChar(str[i])]

\* str.split(sep) for a one-character sep
RECURSIVE Split(_, _)
Split(str, sep) ==
    IF \A i \in 1..Len(str) : str[i] # sep
    THEN <<str>>
    ELSE LET i == CHOOSE j \in 1..Len(str) :
                      str[j] = sep /\ \A k \in 1..(j - 1) : str[k] # sep
         IN  <<SubSeq(str, 1, i - 1)>> \o Split(SubSeq(str, i + 1, Len(str)), sep)

\* sep.join(parts)
RECURSIVE Join(_, _)
Join(parts, sep) ==
    IF parts = << >> THEN << >>
    ELSE IF Len(parts) = 1 THEN parts[1]
    ELSE parts[1] \o sep \o Join(Tail(parts), sep)

\* str.endswith(suffix)
EndsWith(str, suffix) ==
    /\ Len(str) >= Len(suffix)
    /\ SubSeq(str, Len(str) - Len(suffix) + 1, Len(str)) = suffix

\* str[:-n] and str[-n:]
DropLast(str, n) == SubSeq(str, 1, Len(str) - n)
TakeLast(str, n) ==
    IF n >= Len(str) THEN str ELSE SubSeq(str, Len(str) - n + 1, Len(str))

\* lines 9-15: self.mapping_rules
mapping_rules ==
    [e \in {"binance", "kucoin", "bybit", "okx", "bitmart"} |->
        [separator |-> IF e \in {"kucoin", "okx"} THEN <<"-">>
                       ELSE IF e = "bitmart" THEN <<"_">>
                       ELSE << >>,
         case |-> "upper"]]

\* line 16: self.universal_separator
universal_separator == <<"/">>

Returned(str) == [st |-> "ok", val |-> str, err |-> "None"]
NotCalled == [st |-> "none", val |-> << >>, err |-> "None"]

\* mutant: a symbol for an exchange without rules handed back as it came
NoMappingRulesPassThrough(pair, exchange) == Returned(pair)

\* lines 29-30 and 53-54: raise ValueError("No mapping rules found ...")
NoMappingRules(pair, exchange) ==
    [st |-> "exc", val |-> << >>, err |-> "ValueError"]

\* lines 18-40
to_exchange(pair, exchange) ==
    IF exchange \notin DOMAIN mapping_rules
    THEN NoMappingRules(pair, exchange)
    ELSE LET rules == mapping_rules[exchange]
             parts == Split(pair, universal_separator[1])
             exchange_pair == Join(parts, rules.separator)
         IN  IF rules.case = "upper"
             THEN Returned(UpperStr(exchange_pair))
             ELSE Returned(LowerStr(exchange_pair))

\* mutant: the universal symbol handed back in lower case
UniversalCaseLower(str) == LowerStr(str)

\* line 76: the .upper() of the returned symbol
UniversalCase(str) == UpperStr(str)

\* mutant: every quote currency taken for three characters long
QuoteLengthAlwaysThree(pair) == 3

\* mutant: every quote currency taken for four characters long
QuoteLengthAlwaysFour(pair) == 4

\* lines 64-73: the length of the quote currency, by the suffix
QuoteLength(pair) ==
    IF EndsWith(pair, <<"U", "S", "D", "T">>)
          \/ EndsWith(pair, <<"U", "S", "D", "C">>)
    THEN 4
    ELSE IF EndsWith(pair, <<"B", "T", "C">>)
               \/ EndsWith(pair, <<"E", "T", "H">>)
    THEN 3
    ELSE 3

\* lines 42-76
to_universal(pair, exchange) ==
    IF exchange \notin DOMAIN mapping_rules
    THEN NoMappingRules(pair, exchange)
    ELSE LET separator == mapping_rules[exchange].separator
             quote_len == QuoteLength(pair)
             parts ==
                 IF separator # << >>
                 THEN Split(pair, separator[1])
                 ELSE <<DropLast(pair, IF quote_len > Len(pair)
                                       THEN Len(pair) ELSE quote_len),
                        TakeLast(pair, quote_len)>>
         IN  Returned(UniversalCase(Join(parts, universal_separator)))

\* the pieces callers build symbols from
Pieces ==
    {<<"B", "T", "C">>, <<"b", "t", "c">>, <<"U", "S", "D", "T">>,
     <<"U", "S", "D", "C">>, <<"E", "T", "H">>, <<"/">>, <<"-">>, <<"_">>}

RECURSIVE Concat(_)
Concat(seqs) == IF seqs = << >> THEN << >> ELSE Head(seqs) \o Concat(Tail(seqs))

\* the symbols a caller may hand to the mapper
Symbols ==
    {Concat(ps) : ps \in UNION {[1..n -> Pieces] : n \in 0..MaxParts}}

\* the exchange names a caller may hand to the mapper
ExchangeIds == DOMAIN mapping_rules \cup {"gate", "Binance"}

MapperIdle ==
    /\ map_pc = "idle"
    /\ universal_pair = << >>
    /\ mapper_exchange = "binance"
    /\ to_exchange_out = NotCalled
    /\ to_universal_out = NotCalled
    /\ round_trip = FALSE

\* mapper.to_exchange(universal_pair, exchange_name)
ToExchange ==
    /\ map_pc = "start"
    /\ to_exchange_out' = to_exchange(universal_pair, mapper_exchange)
    /\ map_pc' = "mapped"
    /\ UNCHANGED <<universal_pair, mapper_exchange, to_universal_out, round_trip>>
    /\ UNCHANGED <<limiterVars, retryVars, engineVars, connVars, loadVars,
                   impactVars, orderVars, positionVars>>

\* mapper.to_universal(...) of what to_exchange returned
ToUniversalBack ==
    /\ map_pc = "mapped"
    /\ to_exchange_out.st = "ok"
    /\ to_universal_out' = to_universal(to_exchange_out.val, mapper_exchange)
    /\ round_trip' = TRUE
    /\ map_pc' = "done"
    /\ UNCHANGED <<universal_pair, mapper_exchange, to_exchange_out>>
    /\ UNCHANGED <<limiterVars, retryVars, engineVars, connVars, loadVars,
                   impactVars, orderVars, positionVars>>

\* mapper.to_universal(...) of a symbol that came from elsewhere
ToUniversal ==
    /\ map_pc \in {"start", "mapped"}
    /\ to_universal_out' = to_universal(universal_pair, mapper_exchange)
    /\ round_trip' = FALSE
    /\ map_pc' = "done"
    /\ UNCHANGED <<universal_pair, mapper_exchange, to_exchange_out>>
    /\ UNCHANGED <<limiterVars, retryVars, engineVars, connVars, loadVars,
                   impactVars, orderVars, positionVars>>

----------------------------------------------------------------------------
(* BinanceConnector.get_position_details *)

\* the filled orders callers pass: entry price, quantity and side
EntryPrices == {99, 100, 101}
PositionSides == {"buy", "BUY", "long", "sell", "short"}
FilledOrders ==
    [avg_fill_price : EntryPrices, quantity : {1, 2}, side : PositionSides]

NoOrder == [avg_fill_price |-> 0, quantity |-> 0, side |-> "none"]
NoPosition == [st |-> "pending", NetPnL |-> Whole(0), err |-> "None"]

\* mutant: the quote of the call before used again when there is one
PriceInfoCached(fresh, earlier) == IF earlier = NoQuote THEN fresh ELSE earlier

\* lines 228-229: the quote the price is computed from is the one this
\* call fetched
PriceInfo(fresh, earlier) == fresh

\* lines 229-235
NetPnL(order, price_info) ==
    LET current_price == Frac(price_info.bid + price_info.ask, 2)
        entry_price == Whole(order.avg_fill_price)
    IN  IF SideLower(order.side) = "long" \/ SideLower(order.side) = "buy"
        THEN FMul(FSub(current_price, entry_price), Whole(order.quantity))
        ELSE FMul(FSub(entry_price, current_price), Whole(order.quantity))

PositionIdle ==
    /\ pos_pc = "idle"
    /\ filled_order = NoOrder
    /\ current_price_info = NoQuote
    /\ earlier_price_info = NoQuote
    /\ pos_out = NoPosition

\* lines 220-225: the call starts and reads the filled order
GetPositionDetails ==
    /\ pos_pc \in {"idle", "done"}
    /\ \E o \in FilledOrders : filled_order' = o
    /\ earlier_price_info' = current_price_info
    /\ current_price_info' = NoQuote
    /\ pos_out' = NoPosition
    /\ pos_pc' = "fetch"
    /\ UNCHANGED <<limiterVars, retryVars, engineVars, connVars, loadVars,
                   impactVars, orderVars, mapperVars>>

\* lines 228-247: get_best_bid_ask answers with a quote, the PnL is
\* computed from it and the position is returned
PositionPriced ==
    /\ pos_pc = "fetch"
    /\ \E q \in QuoteChoices :
          /\ current_price_info' = q
          /\ pos_out' = [st |-> "ok",
                         NetPnL |-> NetPnL(filled_order,
                                           PriceInfo(q, earlier_price_info)),
                         err |-> "None"]
    /\ pos_pc' = "done"
    /\ UNCHANGED <<filled_order, earlier_price_info>>
    /\ UNCHANGED <<limiterVars, retryVars, engineVars, connVars, loadVars,
                   impactVars, orderVars, mapperVars>>

\* lines 228 and 248-250: get_best_bid_ask raises and get_position_details
\* raises the same exception
PositionFetchRaises ==
    /\ pos_pc = "fetch"
    /\ pos_out' = [NoPosition EXCEPT !.st = "exc", !.err = "FetchError"]
    /\ pos_pc' = "done"
    /\ UNCHANGED <<filled_order, current_price_info, earlier_price_info>>
    /\ UNCHANGED <<limiterVars, retryVars, engineVars, connVars, loadVars,
                   impactVars, orderVars, mapperVars>>

----------------------------------------------------------------------------
(* place_order and get_order_status of the three connector classes *)

\* the calls the model makes: connector class, method, order_type and
\* whether a price is passed
OrderCalls ==
    [class : {"binance", "kucoin", "bitmart"},
     method : {"place_order", "get_order_status"},
     order_type : {"LIMIT", "limit", "MARKET"},
     price_given : BOOLEAN]

\* the fields of the answer to GET /order that get_order_status reads
OrderBodies ==
    [executedQty : {0, 2}, cummulativeQuoteQty : {0, 201}]

NoCall == [class |-> "none", method |-> "none", order_type |-> "none",
           price_given |-> FALSE]

NoBody == [executedQty |-> 0, cummulativeQuoteQty |-> 0]

\* what a call produced: has_avg tells whether the dict returned has the
\* key avg_fill_price
NoOutcome == [st |-> "pending", order_id |-> "None", has_avg |-> FALSE,
              filled_quantity |-> 0, avg_fill_price |-> Whole(0),
              data |-> NoBody, err |-> "None"]

OrderRaised(k) == [NoOutcome EXCEPT !.st = "exc", !.err = k]

\* binance_connector.py line 177, kucoin_connector.py line 30,
\* bitmart_connector.py line 45
OrderHandle(id) == [NoOutcome EXCEPT !.st = "ok", !.order_id = id]

\* binance_connector.py lines 203-208
OrderStatus(data) ==
    [NoOutcome EXCEPT
        !.st = "ok",
        !.has_avg = TRUE,
        !.filled_quantity = data.executedQty,
        !.avg_fill_price = IF data.executedQty > 0
                           THEN Frac(data.cummulativeQuoteQty, data.executedQty)
                           ELSE Whole(0),
        !.data = data]

\* kucoin_connector.py line 40 and bitmart_connector.py line 61:
\* {'status': 'FILLED', 'filled_quantity': 0.0}
PlaceholderOrderStatus == [NoOutcome EXCEPT !.st = "ok"]

\* binance_connector.py lines 169-171
LimitWithoutPrice(call) ==
    call.order_type \in {"LIMIT", "limit"} /\ ~call.price_given

OrderIdle ==
    /\ ord_pc = "idle"
    /\ ord_call = NoCall
    /\ ord_before = [e \in {} |-> << >>]
    /\ ord_out = NoOutcome

\* a call of place_order or get_order_status up to its first await: the
\* placeholder classes return at once, BinanceConnector checks the price of
\* a limit order (lines 169-171) and hands the request to _request
\* (lines 176 and 202)
OrderCall ==
    /\ ord_pc \in {"idle", "done"}
    /\ \E call \in OrderCalls :
          /\ ord_call' = call
          /\ IF call.class \in {"kucoin", "bitmart"}
             THEN /\ ord_out' = IF call.method = "place_order"
                                THEN OrderHandle("mock_123")
                                ELSE PlaceholderOrderStatus
                  /\ ord_pc' = "done"
                  /\ http_sent' = 0
                  /\ conn_recorded' = 0
                  /\ statuses' = << >>
                  /\ UNCHANGED <<conn_pc, response, conn_out, retryVars>>
             ELSE IF call.method = "place_order" /\ LimitWithoutPrice(call)
             THEN /\ ord_out' = OrderRaised("ValueError")
                  /\ ord_pc' = "done"
                  /\ http_sent' = 0
                  /\ conn_recorded' = 0
                  /\ statuses' = << >>
                  /\ UNCHANGED <<conn_pc, response, conn_out, retryVars>>
             ELSE /\ ord_out' = NoOutcome
                  /\ ord_pc' = "request"
                  /\ StartRequest
    /\ ord_before' = request_timestamps
    /\ UNCHANGED <<limiterVars, engineVars, loadVars, impactVars,
                   positionVars, mapperVars>>

\* binance_connector.py lines 177-182 and 203-213: _request is over; the
\* method builds its result from the answer or raises again what _request
\* raised
OrderFinish ==
    /\ ord_pc = "request"
    /\ conn_pc = "retry"
    /\ rh_pc \in {"returned", "raised"}
    /\ IF rh_pc = "raised"
       THEN ord_out' = OrderRaised(rh_raised.kind)
       ELSE IF ord_call.method = "place_order"
       THEN ord_out' = OrderHandle("orderId")
       ELSE \E data \in OrderBodies : ord_out' = OrderStatus(data)
    /\ ord_pc' = "done"
    /\ conn_pc' = "done"
    /\ UNCHANGED <<ord_call, ord_before>>
    /\ UNCHANGED <<http_sent, conn_recorded, statuses, response, conn_out>>
    /\ UNCHANGED <<limiterVars, retryVars, engineVars, loadVars, impactVars,
                   positionVars, mapperVars>>

\* the connector operations and the mapper before their first call
ContractIdle == OrderIdle /\ PositionIdle /\ MapperIdle

\* the components a specification does not drive stay as constructed
ConnLoadImpactIdle == ConnIdle /\ LoadIdle /\ ImpactIdle /\ ContractIdle

Init == LimiterInit /\ RetryIdle /\ EngineIdle /\ ConnLoadImpactIdle

Next ==
    \/ Tick
    \/ \E t \in Tasks : Call(t)
    \/ \E t \in Tasks : Enter(t)
    \/ \E t \in Tasks : Deny(t)
    \/ \E t \in Tasks : Record(t)
    \/ \E t \in Tasks : Wake(t)

Spec == Init /\ [][Next]_vars

----------------------------------------------------------------------------
(* RateLimiter driven by one caller that awaits each acquire before the next *)

\* number of acquire returns the ghost log keeps per exchange
MaxLog(e) == rate_limit(e) + 2

\* acquire (lines 29-65) run from its first to its last line: with a single
\* caller the lock is always free
SeqAcquire(a) ==
    /\ LockFree
    /\ LET e == lower(a)
           kept == CleanOld(request_timestamps[e], clock)
           refused == LimitReached(kept, rate_limit(e))
       IN  /\ Len(log[e]) < MaxLog(e)
           /\ request_timestamps' =
                 [request_timestamps EXCEPT
                     ![e] = IF refused THEN kept ELSE Append(kept, clock)]
           /\ log' = [log EXCEPT
                        ![e] = Append(log[e], [time |-> clock, ret |-> ~refused])]
    /\ UNCHANGED <<clock, lock, pc, op, exch, current_time, wake, ret,
                   recorded, retried, admitted>>
    /\ UNCHANGED notLimiter

SeqNext ==
    \/ Tick
    \/ \E a \in ExchangeArgs : SeqAcquire(a)

SeqSpec == Init /\ [][SeqNext]_vars

----------------------------------------------------------------------------
(* RateLimiter under fair scheduling: a finite set of callers, each calling *)
(* once at time 0, and a clock that advances while the callers are          *)
(* suspended                                                                *)

\* the clock value up to which the fair specification lets time run: enough
\* for every caller to get a window of its own
Horizon == Window * NTasks

FairInit ==
    /\ clock = 0
    /\ request_timestamps = [e \in ExchangeKeys |-> << >>]
    /\ lock = NoTask
    /\ pc = [t \in Tasks |-> "lock"]
    /\ op \in [Tasks -> {"acquire", "wait"}]
    /\ exch \in [Tasks -> ExchangeArgs]
    /\ current_time = [t \in Tasks |-> 0]
    /\ wake = [t \in Tasks |-> 0]
    /\ ret = [t \in Tasks |-> "none"]
    /\ recorded = [t \in Tasks |-> 0]
    /\ retried = [t \in Tasks |-> FALSE]
    /\ admitted = [e \in ExchangeKeys |-> << >>]
    /\ log = [e \in ExchangeKeys |-> << >>]
    /\ RetryIdle
    /\ EngineIdle
    /\ ConnLoadImpactIdle

\* a task the event loop can run now
Runnable(t) ==
    \/ pc[t] \in {"deny", "record"}
    \/ pc[t] = "lock" /\ LockFree
    \/ pc[t] = "sleep" /\ clock >= wake[t]

\* the event loop runs every ready task before it waits for the next timer
FairTick ==
    /\ \A t \in Tasks : ~Runnable(t)
    /\ \E d \in Advances :
          /\ clock + d <= Horizon
          /\ clock' = clock + d
    /\ UNCHANGED <<request_timestamps, lock, pc, op, exch, current_time,
                   wake, ret, recorded, retried, admitted, log>>
    /\ UNCHANGED notLimiter

TaskStep(t) == Enter(t) \/ Deny(t) \/ Record(t) \/ Wake(t)

FairNext ==
    \/ FairTick
    \/ \E t \in Tasks : Enter(t)
    \/ \E t \in Tasks : Deny(t)
    \/ \E t \in Tasks : Record(t)
    \/ \E t \in Tasks : Wake(t)

FairSpec ==
    /\ FairInit
    /\ [][FairNext]_vars
    /\ WF_vars(FairTick)
    /\ \A t \in Tasks : WF_vars(TaskStep(t))

----------------------------------------------------------------------------
(* The other two components on their own *)

RetrySpecInit == LimiterInit /\ RetryInit /\ EngineIdle /\ ConnLoadImpactIdle

RetryNext ==
    \/ Execute
    \/ \E v \in Values : FuncReturns(v)
    \/ \E k \in ErrorKinds : FuncRaises(k)
    \/ Retry

RetrySpec == RetrySpecInit /\ [][RetryNext]_vars

EngineSpecInit == LimiterInit /\ RetryIdle /\ EngineInit /\ ConnLoadImpactIdle

EngineNext ==
    \/ FindBest
    \/ \E e \in Loaded : ConnectorReturns(e)
    \/ \E e \in Loaded : ConnectorRaises(e)
    \/ Gathered

EngineSpec == EngineSpecInit /\ [][EngineNext]_vars

----------------------------------------------------------------------------
(* BinanceConnector.get_best_bid_ask: one connector, the module's          *)
(* rate_limiter and retry_handler, and a clock that also advances while    *)
(* the caller sleeps                                                       *)

ConnInit ==
    /\ clock = 0
    /\ request_timestamps = [e \in ExchangeKeys \cup {ConnName} |-> << >>]
    /\ lock = NoTask
    /\ pc = [t \in Tasks |-> "idle"]
    /\ op = [t \in Tasks |-> "acquire"]
    /\ exch = [t \in Tasks |-> "gate"]
    /\ current_time = [t \in Tasks |-> 0]
    /\ wake = [t \in Tasks |-> 0]
    /\ ret = [t \in Tasks |-> "none"]
    /\ recorded = [t \in Tasks |-> 0]
    /\ retried = [t \in Tasks |-> FALSE]
    /\ admitted = [e \in ExchangeKeys |-> << >>]
    /\ log = [e \in ExchangeKeys |-> << >>]
    /\ RetryIdle
    /\ EngineIdle
    /\ ConnLoadImpactIdle

ConnNext ==
    \/ Tick
    \/ GetBestBidAsk
    \/ ConnAcquire
    \/ ConnWake
    \/ ConnRequest
    \/ ConnBackoffOver
    \/ ConnFinish

ConnSpec == ConnInit /\ [][ConnNext]_vars

----------------------------------------------------------------------------
(* TradingEngine construction over every content of the environment *)

LoadInit ==
    /\ LimiterInit
    /\ RetryIdle
    /\ connectors = << >>
    /\ eng_pc = "idle"
    /\ results = [e \in {} |-> Pending]
    /\ result = NoResult
    /\ completed = << >>
    /\ ConnIdle
    /\ ImpactIdle
    /\ ContractIdle
    /\ api_keys \in Environments
    /\ load_idx = 0
    /\ instantiated = {}
    /\ built = NotBuilt

LoadNext ==
    \/ LoadConnector
    \/ ConstructDirect

LoadSpec == LoadInit /\ [][LoadNext]_vars

----------------------------------------------------------------------------
(* calculate_price_impact over every side, volume, book and quote *)

ImpactInit ==
    /\ LimiterInit
    /\ RetryIdle
    /\ EngineIdle
    /\ ConnIdle
    /\ LoadIdle
    /\ ContractIdle
    /\ pi_pc = "book"
    /\ order_book = NoBook
    /\ best_bid_ask = NoQuote
    /\ pi_side \in Sides
    /\ trade_volume_quote \in Volumes
    /\ pi_walk = NoWalk
    /\ pi_out = NoEstimate

ImpactNext ==
    \/ FetchBook
    \/ FetchQuote
    \/ FetchRaises
    \/ WalkBook

ImpactSpec == ImpactInit /\ [][ImpactNext]_vars

----------------------------------------------------------------------------
(* place_order and get_order_status called again and again on connectors   *)
(* of the three classes, with the module's rate_limiter and retry_handler  *)

OrderNext ==
    \/ Tick
    \/ OrderCall
    \/ ConnAcquire
    \/ ConnWake
    \/ ConnRequest
    \/ ConnBackoffOver
    \/ OrderFinish

OrderSpec == ConnInit /\ [][OrderNext]_vars

----------------------------------------------------------------------------
(* get_position_details called again and again *)

PositionInit ==
    /\ LimiterInit
    /\ RetryIdle
    /\ EngineIdle
    /\ ConnIdle
    /\ LoadIdle
    /\ ImpactIdle
    /\ ContractIdle

PositionNext ==
    \/ GetPositionDetails
    \/ PositionPriced
    \/ PositionFetchRaises

PositionSpec == PositionInit /\ [][PositionNext]_vars

----------------------------------------------------------------------------
(* SymbolMapper over every symbol and exchange name *)

MapperInit ==
    /\ LimiterInit
    /\ RetryIdle
    /\ EngineIdle
    /\ ConnIdle
    /\ LoadIdle
    /\ ImpactIdle
    /\ OrderIdle
    /\ PositionIdle
    /\ map_pc = "start"
    /\ universal_pair \in Symbols
    /\ mapper_exchange \in ExchangeIds
    /\ to_exchange_out = NotCalled
    /\ to_universal_out = NotCalled
    /\ round_trip = FALSE

MapperNext ==
    \/ ToExchange
    \/ ToUniversalBack
    \/ ToUniversal

MapperSpec == MapperInit /\ [][MapperNext]_vars

----------------------------------------------------------------------------
(* Claims about the RateLimiter *)

\* C1: for every exchange, the admitted requests whose timestamps lie in one
\* trailing 60-second window never outnumber the exchange's quota.  The
\* ghost list admitted[e] holds the admitted times of the window that ends
\* at the latest admitted request, which is the fullest window there is.
QuotaNeverExceeded ==
    \A e \in ExchangeKeys :
        /\ Len(admitted[e]) <= rate_limit(e)
        /\ Len(InWindow(admitted[e], clock)) <= rate_limit(e)

\* C1 witness: a full window that has slid: the quota is used up by requests
\* admitted after an older one expired
QuotaFullAfterSlide ==
    \E e \in ExchangeKeys :
        /\ Len(admitted[e]) = rate_limit(e)
        /\ admitted[e][1] > 0
        /\ \E t \in Tasks : lower(exch[t]) = e /\ ret[t] = "False"

\* C2: from an empty history, the acquire calls made in one and the same
\* second return true for the first Q and false from the (Q+1)-th on, and a
\* call made more than 60 seconds after every earlier call returns true
BurstThenRefill ==
    \A e \in ExchangeKeys :
        \A i \in 1..Len(log[e]) :
            /\ (\A j \in 1..i : log[e][j].time = log[e][1].time)
                  => (log[e][i].ret = (i <= rate_limit(e)))
            /\ (\A j \in 1..(i - 1) : log[e][i].time - log[e][j].time > Window)
                  => log[e][i].ret

\* C2 witness: Q admissions and a refusal in one second, then an admission
\* more than a minute later
BurstRefusedThenAdmitted ==
    \E e \in ExchangeKeys :
        LET q == rate_limit(e) IN
        /\ Len(log[e]) = q + 2
        /\ \A j \in 1..(q + 1) : log[e][j].time = log[e][1].time
        /\ ~log[e][q + 1].ret
        /\ log[e][q + 2].time - log[e][1].time > Window
        /\ log[e][q + 2].ret

\* the tasks that are between taking and leaving the lock
InAcquire == {t \in Tasks : pc[t] \in {"deny", "record"}}

\* the tasks that found the exchange under its quota and have yet to record
AboutToRecord(e) == {t \in Tasks : pc[t] = "record" /\ lower(exch[t]) = e}

\* C3: acquire is atomic under the lock: at most one task is inside it and
\* that task holds the lock, no two tasks have seen the same exchange under
\* quota at once, and the history with the pending record never outgrows
\* the quota
AcquireAtomic ==
    /\ Cardinality(InAcquire) <= 1
    /\ \A t \in InAcquire : lock = t
    /\ (InAcquire = {}) => lock = NoTask
    /\ \A e \in ExchangeKeys :
          Len(request_timestamps[e]) + Cardinality(AboutToRecord(e))
              <= rate_limit(e)

\* C3 witness: one task is about to take the last free slot of an exchange
\* while another caller of the same exchange is waiting for the lock
LastSlotContended ==
    \E t, u \in Tasks :
        /\ t # u
        /\ pc[t] = "record"
        /\ pc[u] = "lock"
        /\ lower(exch[u]) = lower(exch[t])
        /\ Len(request_timestamps[lower(exch[t])]) + 1 = rate_limit(lower(exch[t]))

\* a wait_if_needed call that has returned
WaitReturned(t) == op[t] = "wait" /\ pc[t] = "done"

\* C4 (state part): wait_if_needed has returned only if its last acquire
\* returned true and the call recorded exactly one timestamp; until then it
\* has recorded none
WaitAdmittedOnce ==
    \A t \in Tasks :
        op[t] = "wait" =>
            /\ pc[t] = "done" => (ret[t] = "True" /\ recorded[t] = 1)
            /\ pc[t] # "done" => recorded[t] = 0

\* C4: wait_if_needed returns only once admitted, and under fair scheduling
\* with an advancing clock every call of the finite set of callers returns
WaitEventuallyAdmitted ==
    /\ []WaitAdmittedOnce
    /\ \A t \in Tasks : <>(pc[t] = "done")

\* C4 witness: a wait_if_needed call that was refused, slept and was admitted
WaitAdmittedAfterRetry ==
    \E t \in Tasks : WaitReturned(t) /\ retried[t] /\ ret[t] = "True"

----------------------------------------------------------------------------
(* Claims about the RetryHandler *)

\* execute_with_retry has returned or raised
Finished == rh_pc \in {"returned", "raised"}

\* no invocation of func has succeeded
AllFailed == \A i \in 1..Len(outcomes) : ~outcomes[i].ok

\* the failure of the latest invocation
LastFailure == outcomes[Len(outcomes)].err

\* C5: an operation that fails on every invocation is invoked exactly
\* max_retries + 1 times, after which execute_with_retry raises an error of
\* the kind the operation failed with
AllFailuresExhaust ==
    /\ AllFailed => Len(outcomes) <= max_retries + 1
    /\ (AllFailed /\ Len(outcomes) = max_retries + 1) =>
          (rh_pc = "raised" /\ rh_raised.kind = LastFailure.kind)
    /\ rh_pc = "raised" => (AllFailed /\ Len(outcomes) = max_retries + 1)

\* C5 witness: the default handler gave up on a function that raised the
\* same error four times
RaisedAfterFourFailures ==
    /\ max_retries = DefaultMaxRetries
    /\ rh_pc = "raised"
    /\ Len(outcomes) = DefaultMaxRetries + 1
    /\ \A i \in 1..Len(outcomes) : outcomes[i].err.kind = "Http"
    /\ rh_raised.kind = "Http"

\* C6: the first successful invocation, the k-th with k <= max_retries + 1,
\* ends the call: its value is returned, and no invocation follows it
SuccessEndsCall ==
    /\ \A i \in 1..Len(outcomes) :
          outcomes[i].ok =>
              /\ i = Len(outcomes)
              /\ i <= max_retries + 1
              /\ rh_pc = "returned"
              /\ rh_result = outcomes[i].val
    /\ rh_pc = "returned" => (Len(outcomes) >= 1 /\ outcomes[Len(outcomes)].ok)

\* C6 witness: success on the very last attempt the handler allows, after
\* max_retries failures
ReturnedOnLastAttempt ==
    /\ max_retries = DefaultMaxRetries
    /\ rh_pc = "returned"
    /\ Len(outcomes) = max_retries + 1
    /\ rh_result = "success"
    /\ Len(slept) = max_retries

\* C7: when the attempts are used up the caller gets the very error of the
\* final invocation, not an earlier one and not a wrapper, and gets an error
\* only then
LastFailureReraised ==
    /\ rh_pc = "raised" =>
          /\ rh_raised = LastFailure
          /\ rh_raised = last_exception
          /\ rh_raised.kind \in ErrorKinds
          /\ rh_raised.n = max_retries + 1
    /\ rh_pc # "raised" => rh_raised = NoError
    /\ (Finished /\ AllFailed) => rh_pc = "raised"

\* C7 witness: the attempts failed in different ways and the last failure
\* is the one raised
RaisedLastOfDifferentFailures ==
    /\ rh_pc = "raised"
    /\ Len(outcomes) > 1
    /\ outcomes[1].err.kind = "RateLimit"
    /\ LastFailure.kind = "Auth"
    /\ rh_raised = LastFailure

----------------------------------------------------------------------------
(* Claims about the TradingEngine *)

\* C8: the best bid is the highest bid among the connectors that answered
\* and names a connector that quoted it, the best ask is the lowest ask and
\* names a connector that quoted it
BestBidHighestBestAskLowest ==
    (eng_pc = "done" /\ Succeeded # {}) =>
        /\ result.best_bid.exchange \in Succeeded
        /\ result.best_bid.price = results[result.best_bid.exchange].bid
        /\ \A e \in Succeeded : results[e].bid <= result.best_bid.price
        /\ result.best_ask.exchange \in Succeeded
        /\ result.best_ask.price = results[result.best_ask.exchange].ask
        /\ \A e \in Succeeded : results[e].ask >= result.best_ask.price

\* C8 witness: bids 100, 102, 99 and asks 101, 103, 100 give best bid 102
\* from the second exchange and best ask 100 from the third
BestOfThreeExample ==
    /\ eng_pc = "done"
    /\ connectors = AllExchanges
    /\ results["binance"] = Quote(100, 101)
    /\ results["kucoin"] = Quote(102, 103)
    /\ results["bitmart"] = Quote(99, 100)
    /\ result.best_bid = [exchange |-> "kucoin", price |-> 102]
    /\ result.best_ask = [exchange |-> "bitmart", price |-> 100]

\* the highest bid and the lowest ask of a non-empty set of answers
MaxBid(S) == CHOOSE b \in {results[e].bid : e \in S} :
                 \A e \in S : results[e].bid <= b
MinAsk(S) == CHOOSE a \in {results[e].ask : e \in S} :
                 \A e \in S : results[e].ask >= a

\* C9: when connector calls fail, errors holds exactly one entry per failed
\* exchange, failures and quotes add up to the loaded connectors, and the
\* best bid and ask are those of the successful quotes alone
FailuresCollectedSeparately ==
    (eng_pc = "done" /\ Failed # {}) =>
        /\ Len(result.errors) = Cardinality(Failed)
        /\ Cardinality(Failed) + Cardinality(Succeeded) = Len(connectors)
        /\ \A e \in Failed :
              Cardinality({i \in 1..Len(result.errors) :
                              result.errors[i].exchange = e}) = 1
        /\ \A i \in 1..Len(result.errors) :
              /\ result.errors[i].exchange \in Failed
              /\ result.errors[i].err = results[result.errors[i].exchange].err
        /\ IF Succeeded = {}
           THEN result.best_bid = None /\ result.best_ask = None
           ELSE /\ result.best_bid.price = MaxBid(Succeeded)
                /\ result.best_ask.price = MinAsk(Succeeded)

\* C9 witness: one of three calls raised, the other two were reduced
OneOfThreeFailed ==
    /\ eng_pc = "done"
    /\ Len(connectors) = 3
    /\ Failed = {"kucoin"}
    /\ Len(result.errors) = 1
    /\ result.best_bid.exchange \in {"binance", "bitmart"}
    /\ result.best_ask.exchange \in {"binance", "bitmart"}

\* every task of the fan-out has finished
AllAnswered == \A e \in Loaded : results[e] # Pending

\* C10: the aggregate call never raises: whatever the connectors did, it
\* can return once they have all finished, and every exception a connector
\* raised is an entry of errors
AggregateNeverRaises ==
    /\ eng_pc # "raised"
    /\ result.raised = "None"
    /\ (eng_pc = "gather" /\ AllAnswered) => ENABLED Gathered
    /\ eng_pc = "done" =>
          \A e \in Failed :
              \E i \in 1..Len(result.errors) :
                  /\ result.errors[i].exchange = e
                  /\ result.errors[i].err = results[e].err

\* C10 witness: a result returned although every connector raised, and not
\* all with the same kind of error
ReturnedThoughAllRaised ==
    /\ eng_pc = "done"
    /\ Len(connectors) = 3
    /\ Failed = Loaded
    /\ results["binance"].err # results["kucoin"].err
    /\ Len(result.errors) = 3

\* the result line 75 returns
NoConnectorsResult == [NoResult EXCEPT !.error = "No connectors available"]

\* C11: with no connector loaded the call is over in one step: both fields
\* are absent, the 'No connectors available' condition is set, no
\* get_best_bid_ask task exists, and the limiter and the retry handler have
\* not been touched
EmptyEngineReturnsAtOnce ==
    (connectors = << >> /\ eng_pc # "idle") =>
        /\ eng_pc = "done"
        /\ result.best_bid = None
        /\ result.best_ask = None
        /\ result.error = "No connectors available"
        /\ result.errors = << >>
        /\ DOMAIN results = {}
        /\ \A e \in DOMAIN request_timestamps : request_timestamps[e] = << >>
        /\ outcomes = << >>

\* C11 witness: the engine without connectors has answered
EmptyEngineAnswered ==
    /\ connectors = << >>
    /\ eng_pc = "done"
    /\ result = NoConnectorsResult

\* C12: with connectors loaded and every call failed the call returns
\* normally, both fields absent, one error per connector, and the result
\* differs from the one an engine without connectors returns
AllFailedIsNormalResult ==
    (eng_pc = "done" /\ connectors # << >> /\ Succeeded = {}) =>
        /\ result.raised = "None"
        /\ result.best_bid = None
        /\ result.best_ask = None
        /\ Len(result.errors) >= 1
        /\ Len(result.errors) = Len(connectors)
        /\ result.error # NoConnectorsResult.error
        /\ result # NoConnectorsResult

\* C12 witness: two connectors loaded, both failed, the result is returned
BothOfTwoFailed ==
    /\ eng_pc = "done"
    /\ Len(connectors) = 2
    /\ Failed = Loaded
    /\ Len(result.errors) = 2
    /\ result.best_bid = None

\* position of a loaded exchange in the insertion order
Position(e) == CHOOSE i \in 1..Len(connectors) : connectors[i] = e

\* the successful exchanges quoting the highest bid / the lowest ask
TopBidders == {e \in Succeeded : \A f \in Succeeded : results[f].bid <= results[e].bid}
LowAskers == {e \in Succeeded : \A f \in Succeeded : results[f].ask >= results[e].ask}

\* C13: among the successful exchanges that share the highest bid (lowest
\* ask) the one reported is the first in the insertion order of connectors
TieGoesToFirst ==
    (eng_pc = "done" /\ Succeeded # {}) =>
        /\ result.best_bid.exchange \in TopBidders
        /\ \A e \in TopBidders : Position(result.best_bid.exchange) <= Position(e)
        /\ result.best_ask.exchange \in LowAskers
        /\ \A e \in LowAskers : Position(result.best_ask.exchange) <= Position(e)

\* C13 witness: the second and third exchange tie on the highest bid and on
\* the lowest ask, and the second is reported for both
TieReportedForSecond ==
    /\ eng_pc = "done"
    /\ connectors = AllExchanges
    /\ Succeeded = Loaded
    /\ TopBidders = {"kucoin", "bitmart"}
    /\ LowAskers = {"kucoin", "bitmart"}
    /\ result.best_bid.exchange = "kucoin"
    /\ result.best_ask.exchange = "kucoin"

----------------------------------------------------------------------------
(* Claims about BinanceConnector.get_best_bid_ask *)

\* C15: get_best_bid_ask returns a quote as soon as one attempt receives a
\* successful HTTP response (on the first attempt after exactly one HTTP
\* request and no backoff sleep), and fails only when every one of the
\* max_retries + 1 attempts received a response that is not a success.
QuoteUnlessEveryAttemptRefused ==
    conn_pc = "done" =>
        \/ /\ conn_out.st = "ok"
           /\ statuses # << >>
           /\ statuses[Len(statuses)] = 200
           /\ \A i \in 1..(Len(statuses) - 1) : statuses[i] # 200
           /\ http_sent = Len(statuses)
           /\ Len(statuses) = 1 => slept = << >>
        \/ /\ conn_out.st = "exc"
           /\ Len(statuses) = max_retries + 1
           /\ \A i \in 1..Len(statuses) : statuses[i] \notin 200..299

\* C16: the failure get_best_bid_ask surfaces has the kind of the status of
\* the final attempt's response: 429 RateLimited, 401 AuthFailed,
\* 403 Forbidden, any other UpstreamError.
FailureKindOfFinalStatus ==
    (conn_pc = "done" /\ conn_out.st = "exc") =>
        /\ statuses # << >>
        /\ conn_out.err = Classify(statuses[Len(statuses)])

----------------------------------------------------------------------------
(* Claims about the construction of the engine and of connectors *)

\* the credentials of an entry are all there: key, secret and, for an
\* exchange that has one, the passphrase or memo
FullyPresent(creds) ==
    creds.api_key # "" /\ creds.api_secret # "" /\ creds.extra # ""

\* C17: after the engine is constructed its connector set holds an exchange
\* only if that exchange's credentials are fully present (api_key,
\* api_secret and the exchange-specific extra field); an exchange with
\* missing or partial credentials is skipped and never instantiated.
OnlyFullyConfiguredLoaded ==
    LoadDone =>
        /\ \A name \in Loaded : FullyPresent(api_keys[name])
        /\ \A name \in instantiated : FullyPresent(api_keys[name])

\* C18: constructing a connector with an empty api_key or api_secret fails
\* with the invalid-credentials error (ValueError) and produces no
\* connector; while the engine loads, an exchange whose key or secret is
\* empty costs only its own connector: every exchange with both is loaded.
EmptyKeyOrSecretRefused ==
    /\ (built.outcome # "none" /\ (built.api_key = "" \/ built.api_secret = ""))
          => built.outcome = "ValueError"
    /\ LoadDone =>
          \A name \in {"binance", "kucoin", "bitmart"} :
              name \in Loaded <=>
                  (api_keys[name].api_key # "" /\ api_keys[name].api_secret # "")

RefusedAloneOthersLoaded ==
    /\ built.name = "kucoin"
    /\ built.api_key = "set"
    /\ built.api_secret = ""
    /\ built.outcome = "ValueError"
    /\ LoadDone
    /\ api_keys["binance"].api_key = ""
    /\ api_keys["binance"].api_secret = "set"
    /\ connectors = <<"kucoin", "bitmart">>

----------------------------------------------------------------------------
(* Claims about calculate_price_impact *)

\* notional value and quantity of the first k levels of a book side
RECURSIVE SumValues(_, _)
SumValues(side, k) ==
    IF k = 0 THEN 0 ELSE SumValues(side, k - 1) + side[k][1] * side[k][2]

RECURSIVE SumQuantities(_, _)
SumQuantities(side, k) ==
    IF k = 0 THEN 0 ELSE SumQuantities(side, k - 1) + side[k][2]

\* the side of the fetched book the call walks
Walked == IF pi_side \in {"buy", "BUY"} THEN order_book.asks ELSE order_book.bids

\* the levels the volume consumes whole: those it still exceeds
FullLevels ==
    Cardinality({k \in 1..Len(Walked) :
                    trade_volume_quote > SumValues(Walked, k)})

\* calculate_price_impact returned an estimate
Estimated == pi_pc = "done" /\ pi_out.st = "ok"

ExampleBook ==
    /\ order_book.asks = << <<100, 1>>, <<101, 2>>, <<102, 5>> >>
    /\ best_bid_ask = [bid |-> 99, ask |-> 100]
    /\ pi_side = "buy"
    /\ trade_volume_quote = 150

\* C19: calculate_price_impact consumes whole every level the remaining
\* volume exceeds, then remainingVolume / price of the next level, and
\* returns averageExecutionPrice = filledValue / filledQuantity and
\* priceImpactPercent = (average - mid) / mid * 100 with mid = (bid+ask)/2;
\* for asks [(100,1),(101,2),(102,5)], mid 99.5 and a buy of 150 it takes
\* level 1 whole and 50/101 of level 2, and the impact is positive.
ImpactIsBookWalk ==
    Estimated =>
        LET k == FullLevels
            mid == [n |-> best_bid_ask.bid + best_bid_ask.ask, d |-> 2]
            avg == pi_out.average_execution_price
            impact == pi_out.price_impact_percent
        IN  /\ IF k < Len(Walked)
               THEN /\ pi_walk.filled_value = trade_volume_quote
                    /\ pi_walk.filled_quantity =
                          FAdd(Whole(SumQuantities(Walked, k)),
                               Frac(trade_volume_quote - SumValues(Walked, k),
                                    Walked[k + 1][1]))
               ELSE /\ pi_walk.filled_value = SumValues(Walked, k)
                    /\ pi_walk.filled_quantity = Whole(SumQuantities(Walked, k))
            \* filledValue / filledQuantity
            /\ avg = Frac(pi_walk.filled_value * pi_walk.filled_quantity.d,
                          pi_walk.filled_quantity.n)
            \* (avg - mid) / mid * 100 over the common denominator
            /\ impact = Frac(100 * (avg.n * mid.d - mid.n * avg.d),
                             mid.n * avg.d)
            /\ ExampleBook =>
                  /\ pi_walk.filled_quantity = [n |-> 151, d |-> 101]
                  /\ avg = [n |-> 15150, d |-> 151]
                  /\ impact.n > 0

ExampleEstimated == Estimated /\ ExampleBook

\* the whole notional value of the side the call walks
TotalNotional == SumValues(Walked, Len(Walked))

\* the walk was reached: both fetches answered
WalkDone == pi_pc = "done" /\ pi_out.err # "FetchError"

\* calculate_price_impact raised the not-enough-liquidity ValueError and
\* returned no estimate
InsufficientLiquidity == pi_out.st = "exc" /\ pi_out.err = "ValueError"

\* C20 as stated: every trade_volume_quote that exceeds the total notional
\* value of the selected side by more than 0.1% of that notional makes
\* calculate_price_impact fail with InsufficientLiquidity.
ExceedingNotionalByTenthPercentFails ==
    (WalkDone /\ trade_volume_quote * 1000 > TotalNotional * 1001)
        => InsufficientLiquidity

\* C20 amended: every trade_volume_quote of which the total notional value
\* of the selected side is less than 99.9% makes calculate_price_impact
\* fail with InsufficientLiquidity and return no estimate.
NotionalUnderTolerancedVolumeFails ==
    (WalkDone /\ TotalNotional * 1000 < trade_volume_quote * 999)
        => InsufficientLiquidity

BookTooThinRefused ==
    /\ WalkDone
    /\ pi_side = "buy"
    /\ order_book.asks = << <<100, 1>> >>
    /\ trade_volume_quote = 150
    /\ InsufficientLiquidity

----------------------------------------------------------------------------
(* Claims about place_order and get_order_status *)

\* a call of the given method has ended
OrderCallEnded(method) == ord_pc = "done" /\ ord_call.method = method

\* C21: place_order with order type LIMIT and no price fails with the
\* invalid-order-parameters error (ValueError) before any admission, retry
\* attempt or HTTP request, leaving the limiter history as it was, on every
\* connector class.
LimitWithoutPriceRefused ==
    (/\ OrderCallEnded("place_order")
     /\ ord_call.order_type \in {"LIMIT", "limit"}
     /\ ~ord_call.price_given)
        => /\ ord_out.st = "exc"
           /\ ord_out.err = "ValueError"
           /\ conn_recorded = 0
           /\ http_sent = 0
           /\ request_timestamps = ord_before

\* C22: get_order_status of an order with filled quantity 0 returns a
\* status whose avg_fill_price is 0 and never raises a division by zero;
\* with filled quantity > 0 avg_fill_price is the cumulative quote value
\* divided by the filled quantity; on every connector class.
AvgFillPriceDefined ==
    OrderCallEnded("get_order_status") =>
        /\ ord_out.err # "ZeroDivisionError"
        /\ ord_out.st = "ok" =>
              /\ ord_out.has_avg
              /\ ord_out.filled_quantity = 0 => ord_out.avg_fill_price = Whole(0)
              /\ ord_out.filled_quantity > 0 =>
                    ord_out.avg_fill_price =
                        Frac(ord_out.data.cummulativeQuoteQty,
                             ord_out.filled_quantity)

----------------------------------------------------------------------------
(* Claims about get_position_details *)

\* get_position_details returned a position
Positioned == pos_pc = "done" /\ pos_out.st = "ok"

\* the same order entered on the other side
Opposite(order) ==
    [order EXCEPT !.side = IF order.side \in {"buy", "BUY", "long"}
                           THEN "sell" ELSE "buy"]

\* C23: get_position_details computes the unrealized PnL from the mid price
\* (bid+ask)/2 of the quote this call fetched: (current - entry) * quantity
\* for a long or buy entry, (entry - current) * quantity for a short or
\* sell entry; the two sides give PnL of equal magnitude and opposite sign,
\* and the quote of an earlier call is never used again.
PnlFromFreshMidPrice ==
    /\ Positioned =>
          LET twice_mid == current_price_info.bid + current_price_info.ask
              gain == (twice_mid - 2 * filled_order.avg_fill_price)
                          * filled_order.quantity
          IN  pos_out.NetPnL =
                  IF filled_order.side \in {"buy", "BUY", "long"}
                  THEN Frac(gain, 2)
                  ELSE Frac(-gain, 2)
    /\ \A o \in FilledOrders, q \in QuoteChoices :
          LET pnl == NetPnL(o, q)
              other == NetPnL(Opposite(o), q)
          IN  pnl.d = other.d /\ pnl.n + other.n = 0

ShortPricedAfterQuoteMoved ==
    /\ Positioned
    /\ filled_order = [avg_fill_price |-> 101, quantity |-> 2, side |-> "short"]
    /\ earlier_price_info = [bid |-> 98, ask |-> 100]
    /\ current_price_info = [bid |-> 99, ask |-> 100]
    /\ pos_out.NetPnL = [n |-> 3, d |-> 1]

----------------------------------------------------------------------------
(* Claims about the SymbolMapper *)

\* BASE/QUOTE: two non-empty currencies around one "/"
IsUniversalSymbol(str) ==
    LET parts == Split(str, universal_separator[1])
    IN  Len(parts) = 2 /\ parts[1] # << >> /\ parts[2] # << >>

Contains(str, c) == \E i \in 1..Len(str) : str[i] = c

\* to_universal was applied to what to_exchange returned, for an exchange
\* whose separator is not empty
WentRoundTrip ==
    /\ map_pc = "done"
    /\ round_trip
    /\ mapper_exchange \in {"kucoin", "okx", "bitmart"}
    /\ IsUniversalSymbol(universal_pair)

\* C24 as stated: for every universal symbol s and every exchange e with a
\* non-empty separator, to_universal(to_exchange(s, e), e) = s.
RoundTripIsIdentity ==
    WentRoundTrip => to_universal_out = Returned(universal_pair)

\* C24 amended: for every universal symbol s written in upper case whose
\* currencies do not contain the separator of e, and every exchange e with
\* a non-empty separator, to_universal(to_exchange(s, e), e) = s.
UpperCaseRoundTripIsIdentity ==
    (/\ WentRoundTrip
     /\ universal_pair = UpperStr(universal_pair)
     /\ ~Contains(universal_pair, mapping_rules[mapper_exchange].separator[1]))
        => to_universal_out = Returned(universal_pair)

BtcUsdtThroughKucoin ==
    /\ WentRoundTrip
    /\ mapper_exchange = "kucoin"
    /\ universal_pair = <<"B", "T", "C", "/", "U", "S", "D", "T">>
    /\ to_exchange_out = Returned(<<"B", "T", "C", "-", "U", "S", "D", "T">>)
    /\ to_universal_out = Returned(universal_pair)

\* an exchange name with a rule set in mapping_rules
Registered(exchange) ==
    exchange \in {"binance", "kucoin", "bybit", "okx", "bitmart"}

UnknownExchange(out) ==
    out.st = "exc" /\ out.err = "ValueError" /\ out.val = << >>

\* C25: to_exchange and to_universal both fail with the unknown-exchange
\* error (ValueError), returning no symbol, whenever the exchange name has
\* no rule set, and both return a symbol for every registered name.
UnknownExchangeRefused ==
    /\ to_exchange_out # NotCalled =>
          IF Registered(mapper_exchange)
          THEN to_exchange_out.st = "ok"
          ELSE UnknownExchange(to_exchange_out)
    /\ to_universal_out # NotCalled =>
          IF Registered(mapper_exchange)
          THEN to_universal_out.st = "ok"
          ELSE UnknownExchange(to_universal_out)

BothRefusedForGate ==
    /\ map_pc = "done"
    /\ mapper_exchange = "gate"
    /\ universal_pair = <<"B", "T", "C", "/", "U", "S", "D", "T">>
    /\ UnknownExchange(to_exchange_out)
    /\ UnknownExchange(to_universal_out)

----------------------------------------------------------------------------
(* Claims about admission and retry inside a connector request *)

\* C26 as stated: admission is acquired once per connector operation,
\* before the retry handler is entered; the retried attempts do not pass
\* the rate limiter again, so an operation records exactly one timestamp
\* however many attempts it needs.
AdmittedOncePerOperation ==
    conn_pc = "done" => conn_recorded = 1

\* C26 amended: admission is acquired inside the retried function; every
\* attempt of an operation passes the rate limiter before it does anything
\* else, so an operation records one timestamp per attempt.
AdmittedOncePerAttempt ==
    /\ conn_pc = "request" => conn_recorded = Len(outcomes) + 1
    /\ conn_pc \in {"retry", "done"} => conn_recorded = Len(outcomes)

FourAttemptsFourTimestamps ==
    /\ conn_pc = "done"
    /\ Len(outcomes) = max_retries + 1
    /\ max_retries = DefaultMaxRetries
    /\ conn_recorded = DefaultMaxRetries + 1

----------------------------------------------------------------------------
(* Claims about refused requests and about separate exchanges *)

\* the timestamps of a history that have not expired at now
Unexpired(timestamps, now) ==
    SelectSeq(timestamps, LAMBDA ts : now - ts < Window)

\* task t is inside an acquire that is being refused, or leaves it
BeingRefused(t) == pc[t] = "lock" /\ pc'[t] = "deny"
LeavesRefused(t) == pc[t] = "deny" /\ pc'[t] # "deny"

\* C27: an acquire that is refused returns False without recording: it
\* adds no timestamp to the history of the exchange, the only change it
\* may make is dropping expired timestamps, and the unexpired timestamps
\* are the same before and after the call.
RefusalStep ==
    \A t \in Tasks :
        LET e == lower(exch[t]) IN
        /\ BeingRefused(t) =>
              /\ request_timestamps'[e] = Unexpired(request_timestamps[e], clock)
              /\ Unexpired(request_timestamps'[e], clock)
                    = Unexpired(request_timestamps[e], clock)
        /\ LeavesRefused(t) =>
              /\ request_timestamps' = request_timestamps
              /\ ret'[t] = "False"
              /\ recorded'[t] = recorded[t]

RefusedAcquireRecordsNothing == [][RefusalStep]_vars

AcquireRefusedAtFullWindow ==
    \E t \in Tasks :
        /\ pc[t] = "done"
        /\ op[t] = "acquire"
        /\ ret[t] = "False"
        /\ recorded[t] = 0
        /\ exch[t] = "OKX"
        /\ Len(request_timestamps["okx"]) = QuotaOkx
        /\ Unexpired(request_timestamps["okx"], clock) = request_timestamps["okx"]

\* task t takes a step of an acquire
InsideAcquire(t) == pc[t] \in {"lock", "deny", "record"} /\ pc'[t] # pc[t]

\* C28: the sliding window is per exchange: an acquire or wait_if_needed
\* for one exchange never changes the history of another exchange, and a
\* request is refused only when the requests admitted for its own exchange
\* in the last minute fill that exchange's quota, however full the window
\* of another exchange is.
PerExchangeStep ==
    /\ \A e \in ExchangeKeys :
          request_timestamps'[e] # request_timestamps[e] =>
              \E t \in Tasks : InsideAcquire(t) /\ lower(exch[t]) = e
    /\ \A t \in Tasks :
          BeingRefused(t) =>
              Len(InWindow(admitted[lower(exch[t])], clock))
                  >= rate_limit(lower(exch[t]))

WindowsAreSeparate == [][PerExchangeStep]_vars

GateAdmittedWhileOkxFull ==
    \E t \in Tasks :
        /\ pc[t] = "done"
        /\ exch[t] = "gate"
        /\ ret[t] = "True"
        /\ Len(request_timestamps["okx"]) = QuotaOkx
        /\ Unexpired(request_timestamps["okx"], clock) = request_timestamps["okx"]
        /\ Len(request_timestamps["gate"]) = 1
        /\ \A i \in 1..QuotaOkx :
              request_timestamps["okx"][i] <= request_timestamps["gate"][1]

----------------------------------------------------------------------------
(* Claims about the backoff of execute_with_retry *)

RECURSIVE SumSeq(_)
SumSeq(q) == IF q = << >> THEN 0 ELSE Head(q) + SumSeq(Tail(q))

\* C29: the sleep after the failed attempt with index i (from 0) lasts
\* base_delay * 2^i; there is a sleep after every failed attempt except
\* the last one, none after a success and none after the last failure, so
\* a call that exhausted its attempts has slept max_retries times, for
\* base_delay * (2^max_retries - 1) in all.
BackoffDoubles ==
    /\ \A i \in 1..Len(slept) : slept[i] = BaseDelay * 2^(i - 1)
    /\ rh_pc \in {"call", "returned"} =>
          Len(slept) = Cardinality({i \in 1..Len(outcomes) : ~outcomes[i].ok})
    /\ rh_pc = "returned" =>
          /\ outcomes[Len(outcomes)].ok
          /\ Len(slept) = Len(outcomes) - 1
    /\ rh_pc = "sleep" =>
          /\ Len(slept) = Len(outcomes)
          /\ Len(outcomes) <= max_retries
    /\ rh_pc = "raised" =>
          /\ Len(outcomes) = max_retries + 1
          /\ Len(slept) = max_retries
          /\ SumSeq(slept) = BaseDelay * (2^max_retries - 1)

ExhaustedAfterThreeSleeps ==
    /\ rh_pc = "raised"
    /\ max_retries = DefaultMaxRetries
    /\ slept = <<BaseDelay, 2 * BaseDelay, 4 * BaseDelay>>
    /\ SumSeq(slept) = 7 * BaseDelay

----------------------------------------------------------------------------
(* Claims about the order in which the connector calls end *)

\* the member of S that comes first in the insertion order of connectors
First(S) == CHOOSE e \in S : \A f \in S : Position(e) <= Position(f)

\* the failed exchanges in the insertion order of connectors
FailedInOrder == SelectSeq(connectors, LAMBDA e : e \in Failed)

\* the answer as the outcomes and the insertion order alone determine it
Answer ==
    [best_bid |-> IF Succeeded = {} THEN None
                  ELSE [exchange |-> First(TopBidders),
                        price |-> MaxBid(Succeeded)],
     best_ask |-> IF Succeeded = {} THEN None
                  ELSE [exchange |-> First(LowAskers),
                        price |-> MinAsk(Succeeded)],
     errors |-> [i \in 1..Len(FailedInOrder) |->
                    [exchange |-> FailedInOrder[i],
                     err |-> results[FailedInOrder[i]].err]],
     error |-> "None",
     raised |-> "None"]

\* C30: the result of find_best_cross_exchange_bid_ask depends only on the
\* outcomes of the connector calls and on the insertion order of the
\* connectors, not on the order in which the concurrent calls end: in
\* whatever order they ended, the best bid, the best ask and the errors
\* are those the outcomes and the insertion order determine.
CompletionOrderIrrelevant ==
    (eng_pc = "done" /\ connectors # << >>) => result = Answer

LastToStartEndedFirst ==
    /\ eng_pc = "done"
    /\ connectors = <<"binance", "kucoin", "bitmart">>
    /\ completed = <<"bitmart", "kucoin", "binance">>
    /\ results["binance"] = Quote(102, 99)
    /\ results["bitmart"] = Quote(102, 99)
    /\ results["kucoin"].st = "exc"
    /\ result.best_bid.exchange = "binance"
    /\ result.best_ask.exchange = "binance"
    /\ Len(result.errors) = 1

----------------------------------------------------------------------------
(* Claims about the fan-out and fan-in of the connector calls *)

\* how many times the task of exchange e ended
Endings(e) == Cardinality({i \in 1..Len(completed) : completed[i] = e})

\* C31: find_best_cross_exchange_bid_ask starts get_best_bid_ask once for
\* every loaded connector, all of them before it waits for any, and it
\* produces its result only after every one of the calls has ended, with a
\* quote or with a failure; a call that has not ended yet is not given up
\* and holds the result back.
FanInBarrier ==
    /\ eng_pc \in {"gather", "done"} /\ connectors # << >> =>
          /\ DOMAIN results = Loaded
          /\ \A e \in Loaded : Endings(e) = IF results[e] = Pending THEN 0 ELSE 1
          /\ Len(completed) <= Len(connectors)
    /\ (eng_pc = "gather" /\ ~AllAnswered) =>
          /\ result = NoResult
          /\ ~ENABLED Gathered
    /\ (eng_pc = "done" /\ connectors # << >>) =>
          /\ AllAnswered
          /\ Len(completed) = Len(connectors)

EveryCallEndedOnce ==
    /\ eng_pc = "done"
    /\ connectors = AllExchanges
    /\ \A e \in Loaded : Endings(e) = 1
    /\ results["binance"].st = "exc"
    /\ results["kucoin"].st = "ok"
    /\ results["bitmart"].st = "ok"
    /\ completed[3] = "binance"

----------------------------------------------------------------------------
(* Claims about the liquidity tolerance, the side walked and the division *)

\* C32: calculate_price_impact fails with InsufficientLiquidity exactly
\* when the filled notional value is less than 99.9% of
\* trade_volume_quote; when the notional of the book falls short of the
\* volume by at most 0.1% the call returns an estimate computed over the
\* smaller filled value.
RefusedExactlyUnderTolerance ==
    WalkDone =>
        /\ InsufficientLiquidity
              <=> pi_walk.filled_value * 1000 < trade_volume_quote * 999
        /\ (/\ TotalNotional < trade_volume_quote
            /\ TotalNotional * 1000 >= trade_volume_quote * 999) =>
              /\ Estimated
              /\ pi_walk.filled_value = TotalNotional
              /\ pi_out.average_execution_price =
                    Frac(TotalNotional, SumQuantities(Walked, Len(Walked)))

ShortByTenthPercentEstimated ==
    /\ Estimated
    /\ pi_side = "buy"
    /\ order_book.asks = << <<999, 1>> >>
    /\ trade_volume_quote = 1000
    /\ pi_walk.filled_value = 999
    /\ pi_out.average_execution_price = Whole(999)

\* C33: calculate_price_impact consumes the side of the book opposite to
\* the trade: a buy walks the asks only and a sell the bids only; what the
\* other side holds never contributes to the filled value, the filled
\* quantity or the outcome.
OppositeSideWalked ==
    WalkDone =>
        LET k == FullLevels IN
        /\ pi_walk.filled_value =
              IF k < Len(Walked) THEN trade_volume_quote
              ELSE SumValues(Walked, Len(Walked))
        /\ pi_walk.filled_quantity =
              IF k < Len(Walked)
              THEN FAdd(Whole(SumQuantities(Walked, k)),
                        Frac(trade_volume_quote - SumValues(Walked, k),
                             Walked[k + 1][1]))
              ELSE Whole(SumQuantities(Walked, k))
        /\ IF pi_side \in {"buy", "BUY"}
           THEN \A b \in BidSides :
                   Impact([order_book EXCEPT !.bids = b], best_bid_ask,
                          pi_side, trade_volume_quote) = pi_out
           ELSE \A a \in {<< >>, << <<100, 1>> >>, << <<100, 5>>, <<999, 5>> >>} :
                   Impact([order_book EXCEPT !.asks = a], best_bid_ask,
                          pi_side, trade_volume_quote) = pi_out

SellFilledFromBids ==
    /\ Estimated
    /\ pi_side = "sell"
    /\ order_book.bids = << <<98, 1>>, <<97, 2>> >>
    /\ order_book.asks = << <<100, 5>> >>
    /\ trade_volume_quote = 150
    /\ pi_walk.filled_value = 150
    /\ pi_walk.filled_quantity = Frac(97 + 52, 97)

\* C36: calculate_price_impact never divides by zero: for every book, an
\* empty side included, and every trade_volume_quote >= 0, zero included,
\* the call fails with InsufficientLiquidity or with the failure of a
\* fetch, or it reaches the division of line 145 with a filled quantity
\* above zero.
NeverDividesByZero ==
    WalkDone =>
        /\ pi_out.err # "ZeroDivisionError"
        /\ InsufficientLiquidity \/ pi_walk.filled_quantity.n > 0

\* the levels of the walked side something was taken from
Consumed ==
    {k \in 1..Len(Walked) : SumValues(Walked, k - 1) < trade_volume_quote}

LowestConsumed ==
    CHOOSE p \in {Walked[k][1] : k \in Consumed} :
        \A k \in Consumed : p <= Walked[k][1]

HighestConsumed ==
    CHOOSE p \in {Walked[k][1] : k \in Consumed} :
        \A k \in Consumed : p >= Walked[k][1]

\* C37: at the end of the walk the filled value never exceeds
\* trade_volume_quote and equals it exactly when the notional of the
\* walked side is at least trade_volume_quote; whenever an estimate is
\* returned the average execution price lies between the lowest and the
\* highest price of the levels consumed, so at or above the best ask for a
\* buy and at or below the best bid for a sell.
FilledWithinVolumeAndPrices ==
    /\ WalkDone =>
          /\ pi_walk.filled_value <= trade_volume_quote
          /\ pi_walk.filled_value = trade_volume_quote
                <=> TotalNotional >= trade_volume_quote
    /\ Estimated =>
          LET avg == pi_out.average_execution_price IN
          /\ Consumed # {}
          /\ LowestConsumed * avg.d <= avg.n
          /\ avg.n <= HighestConsumed * avg.d
          /\ IF pi_side \in {"buy", "BUY"}
             THEN Walked[1][1] * avg.d <= avg.n
             ELSE avg.n <= Walked[1][1] * avg.d

AverageBetweenTwoLevels ==
    /\ Estimated
    /\ pi_side = "buy"
    /\ order_book.asks = << <<100, 1>>, <<102, 5>> >>
    /\ trade_volume_quote = 150
    /\ pi_walk.filled_value = 150
    /\ pi_out.average_execution_price = [n |-> 3825, d |-> 38]

----------------------------------------------------------------------------
(* Claims about exchanges whose symbols have no separator *)

\* to_universal was applied to a symbol of an exchange without separator
SplitBySuffix ==
    /\ map_pc = "done"
    /\ ~round_trip
    /\ mapper_exchange \in {"binance", "bybit"}

Suffix(str, n) == IF n >= Len(str) THEN str ELSE SubSeq(str, Len(str) - n + 1, Len(str))
Prefix(str, n) == IF n >= Len(str) THEN << >> ELSE SubSeq(str, 1, Len(str) - n)

\* C34: for an exchange with an empty separator to_universal splits the
\* symbol by its suffix: a symbol that ends in USDT or USDC gets a quote of
\* four characters, one that ends in BTC or ETH a quote of three, and any
\* other symbol a quote of three (a symbol shorter than that is all
\* quote); the result is base, "/" and quote, in upper case.
QuoteSplitOffBySuffix ==
    SplitBySuffix =>
        LET s == universal_pair
            n == IF Suffix(s, 4) \in {<<"U", "S", "D", "T">>, <<"U", "S", "D", "C">>}
                 THEN 4 ELSE 3
        IN  /\ to_universal_out.st = "ok"
            /\ to_universal_out.val = UpperStr(Prefix(s, n) \o <<"/">> \o Suffix(s, n))

EthUsdcSplit ==
    /\ SplitBySuffix
    /\ mapper_exchange = "bybit"
    /\ universal_pair = <<"E", "T", "H", "U", "S", "D", "C">>
    /\ to_universal_out.val = <<"E", "T", "H", "/", "U", "S", "D", "C">>

\* the quote currencies the suffix rule knows
KnownQuotes ==
    {<<"U", "S", "D", "T">>, <<"U", "S", "D", "C">>, <<"B", "T", "C">>,
     <<"E", "T", "H">>}

\* to_universal was applied to what to_exchange returned for an upper-case
\* BASE/QUOTE with a known quote, on an exchange without separator
KnownQuoteRoundTrip ==
    /\ map_pc = "done"
    /\ round_trip
    /\ mapper_exchange \in {"binance", "bybit"}
    /\ IsUniversalSymbol(universal_pair)
    /\ universal_pair = UpperStr(universal_pair)
    /\ Split(universal_pair, "/")[2] \in KnownQuotes

\* C35: for the exchanges without separator (binance, bybit)
\* to_universal(to_exchange(s, e), e) = s for every upper-case universal
\* symbol s = BASE/QUOTE with a non-empty BASE and QUOTE one of USDT, USDC,
\* BTC and ETH, whatever BASE is.
KnownQuoteRoundTripIsIdentity ==
    KnownQuoteRoundTrip => to_universal_out = Returned(universal_pair)

UsdtBtcThroughBinance ==
    /\ KnownQuoteRoundTrip
    /\ mapper_exchange = "binance"
    /\ universal_pair = <<"U", "S", "D", "T", "/", "B", "T", "C">>
    /\ to_exchange_out = Returned(<<"U", "S", "D", "T", "B", "T", "C">>)
    /\ to_universal_out = Returned(universal_pair)

----------------------------------------------------------------------------
(* Claims about the presence of best bid and best ask *)

\* C38: in every result of find_best_cross_exchange_bid_ask best bid is
\* absent if and only if best ask is absent if and only if no connector
\* call succeeded; when present, the exchange named in best bid (best ask)
\* is a loaded connector whose call succeeded, and the price is the bid
\* (ask) that connector returned.
BestPresentIffSomeSuccess ==
    eng_pc = "done" =>
        /\ result.best_bid = None <=> result.best_ask = None
        /\ result.best_bid = None <=> Succeeded = {}
        /\ result.best_bid # None =>
              /\ result.best_bid.exchange \in Loaded \cap Succeeded
              /\ result.best_bid.price = results[result.best_bid.exchange].bid
        /\ result.best_ask # None =>
              /\ result.best_ask.exchange \in Loaded \cap Succeeded
              /\ result.best_ask.price = results[result.best_ask.exchange].ask

BestFromTwoSurvivors ==
    /\ eng_pc = "done"
    /\ connectors = AllExchanges
    /\ Failed = {"binance"}
    /\ results["kucoin"] = Quote(103, 101)
    /\ results["bitmart"] = Quote(100, 99)
    /\ result.best_bid = [exchange |-> "kucoin", price |-> 103]
    /\ result.best_ask = [exchange |-> "bitmart", price |-> 99]

----------------------------------------------------------------------------
(* Claims about the failures execute_with_retry retries *)

\* this step is an attempt of func that ends with an exception
AttemptFails ==
    /\ Len(outcomes') = Len(outcomes) + 1
    /\ ~outcomes'[Len(outcomes')].ok

\* C39: execute_with_retry retries whatever was raised: every failure of
\* the retried function, of any kind (rate limit, authentication,
\* forbidden, another answer of the exchange, a refused order), is
\* followed by the backoff sleep and another attempt as long as fewer than
\* max_retries + 1 attempts were made, and only the failure of the last
\* attempt is raised; no kind of error ends the loop early, so the step of
\* one call, an order submission included, is attempted up to
\* max_retries + 1 times.
RetryEveryKindStep ==
    /\ AttemptFails =>
          IF Len(outcomes) < max_retries
          THEN rh_pc' = "sleep" /\ rh_raised' = NoError
          ELSE rh_pc' = "raised" /\ Len(outcomes') = max_retries + 1
    /\ (rh_pc = "sleep" /\ rh_pc' # "sleep") =>
          /\ rh_pc' = "call"
          /\ attempt' = attempt + 1
          /\ attempt' = Len(outcomes)

EveryKindRetried == [][RetryEveryKindStep]_vars

FourKindsFourAttempts ==
    /\ rh_pc = "raised"
    /\ max_retries = DefaultMaxRetries
    /\ Len(outcomes) = DefaultMaxRetries + 1
    /\ outcomes[1].err.kind = "Auth"
    /\ outcomes[2].err.kind = "Forbidden"
    /\ outcomes[3].err.kind = "OrderRejected"
    /\ outcomes[4].err.kind = "RateLimit"
    /\ rh_raised.kind = "RateLimit"

TypeOK ==
    /\ clock \in 0..MaxClock
    /\ lock \in Tasks \cup {NoTask}
    /\ \A t \in Tasks : pc[t] \in {"idle", "lock", "deny", "record", "sleep", "done"}

====
